---- MODULE Spec2Model ----
(***************************************************************************)
(* A model of the glin LED server: the orchestrator GlinApp, its sequenced *)
(* publisher GlinAppZmqPublisher and its request collector                 *)
(* GlinAppZmqCollector (src/glin/app.py), driven over byte-level wire      *)
(* frames.                                                                 *)
(*                                                                         *)
(* Numbers.  A Python float in the code is held here as an integer number  *)
(* of fixed-point units: brightness, colour channels and frame values in   *)
(* units of 1/Unit (Unit is a multiple of 255, so byte/255 is exact), and  *)
(* velocities in units of 1/VUnit.  A wire frame is a sequence of bytes    *)
(* (0..255); a text is the sequence of its UTF-8 bytes.                    *)
(***************************************************************************)
EXTENDS Integers, Sequences, FiniteSets, TLC

\* ------------------------------------------------------------------ bounds
\* Requests are served while fewer than MaxSeq broadcasts were published.
MaxSeq == 4
\* scene.add requests are served while fewer than MaxScenes IDs were assigned.
MaxScenes == 2

\* ------------------------------------------------------- program constants
\* self.config.maxFps
ServerMaxFps == 60
\* UDP.maxFps()
HwMaxFps == 100
\* StaticColorAnimation.get_max_fps()
StaticMaxFps == 0
\* NovaAnimation.get_max_fps()
NovaMaxFps == 30
\* a plug-in animation slower than ServerMaxFps / 4
PluginMaxFps == 10
\* AbstractAnimation.get_max_fps(): float('inf'), above every other rate
DefaultMaxFps == 1000

\* ---------------------------------------------------------- number formats
Unit == 255 * 10
VUnit == 2 * 1000
\* Python's None for state.activeSceneId (scene IDs on the wire are >= 0)
NoneId == 0 - 1

Min(a, b) == IF a < b THEN a ELSE b
Max(a, b) == IF a > b THEN a ELSE b

\* struct.unpack("!I" / "!Q" / "B", frame): big-endian unsigned value
RECURSIVE Unpack(_)
Unpack(f) ==
    IF f = <<>> THEN 0
    ELSE Unpack(SubSeq(f, 1, Len(f) - 1)) * 256 + f[Len(f)]

\* struct.pack to n big-endian bytes (v within range)
RECURSIVE Pack(_, _)
Pack(n, v) ==
    IF n = 0 THEN <<>> ELSE Append(Pack(n - 1, v \div 256), v % 256)

PackB(v) == Pack(1, v)
PackI(v) == Pack(4, v)
PackQ(v) == Pack(8, v)

\* bytes.decode('utf-8') succeeds.  The modelled frames hold ASCII bytes and
\* the byte 0xFF, which occurs in no valid UTF-8 sequence.
Utf8Valid(f) == \A i \in 1..Len(f) : f[i] < 128

\* byte / 255 as a float, in units of 1/Unit
ByteToUnit(b) == b * (Unit \div 255)
\* int(x * 255) for a float x >= 0 held in units of 1/Unit
UnitToByte(x) == (x * 255) \div Unit

\* Wire velocities whose quotient m/1000 is the float just below the exact
\* value, so that int((m/1000)*1000) = m - 1 (IEEE-754 double; 1001 is the
\* smallest such m).
FloatLow == {1001}
\* m / 1000 as a float, in units of 1/VUnit
MilliToV(m) == IF m \in FloatLow THEN 2 * m - 1 ELSE 2 * m
\* int(v * 1000) for a float v >= 0 held in units of 1/VUnit
VToMilli(v) == v \div 2

\* ------------------------------------------------------------ command names
CmdBrightness == <<98, 114, 105, 103, 104, 116, 110, 101, 115, 115>>
CmdMainswitchState ==
    <<109, 97, 105, 110, 115, 119, 105, 116, 99, 104, 46, 115, 116, 97, 116, 101>>
CmdMainswitchToggle ==
    <<109, 97, 105, 110, 115, 119, 105, 116, 99, 104, 46, 116, 111, 103, 103, 108, 101>>
CmdSceneAdd == <<115, 99, 101, 110, 101, 46, 97, 100, 100>>
CmdSceneConfig == <<115, 99, 101, 110, 101, 46, 99, 111, 110, 102, 105, 103>>
CmdSceneColor == <<115, 99, 101, 110, 101, 46, 99, 111, 108, 111, 114>>
CmdSceneVelocity ==
    <<115, 99, 101, 110, 101, 46, 118, 101, 108, 111, 99, 105, 116, 121>>
CmdSceneName == <<115, 99, 101, 110, 101, 46, 110, 97, 109, 101>>
CmdSceneRm == <<115, 99, 101, 110, 101, 46, 114, 109>>
CmdSceneSetactive ==
    <<115, 99, 101, 110, 101, 46, 115, 101, 116, 97, 99, 116, 105, 118, 101>>
CmdAnimationAdd ==
    <<97, 110, 105, 109, 97, 116, 105, 111, 110, 46, 97, 100, 100>>
\* "bogus": a command the collector does not know
CmdBogus == <<98, 111, 103, 117, 115>>

\* texts: "a", "b", "bad", "" and a frame that is not UTF-8
TextA == <<97>>
TextB == <<98>>
TextBad == <<98, 97, 100>>
TextEmpty == <<>>
NotUtf8 == <<255>>

\* ------------------------------------------------------ animation catalogue
\* The animation classes the bootstrap registers, in registration order:
\* the two reference animations, a plug-in whose checkConfig rejects the
\* config "bad", and a plug-in that keeps what AbstractAnimation defines.
AnimStatic == "StaticColorAnimation"
AnimNova == "NovaAnimation"
AnimPlugin == "PluginAnimation"
AnimDefault == "DefaultAnimation"
Catalogue == <<AnimStatic, AnimNova, AnimPlugin, AnimDefault>>

AnimMaxFps(cls) ==
    CASE cls = AnimStatic -> StaticMaxFps
      [] cls = AnimNova -> NovaMaxFps
      [] cls = AnimPlugin -> PluginMaxFps
      [] OTHER -> DefaultMaxFps

CheckConfig(cls, config) ==
    IF cls = AnimPlugin THEN config # TextBad ELSE TRUE

AnimName(cls) ==
    CASE cls = AnimStatic ->
            <<83, 116, 97, 116, 105, 99, 32, 67, 111, 108, 111, 114>>
      [] cls = AnimNova -> <<78, 111, 118, 97>>
      [] cls = AnimPlugin -> <<80, 108, 117, 103, 105, 110>>
      [] OTHER -> <<65, 98, 115, 116, 114, 97, 99, 116, 65, 110, 105, 109,
                    97, 116, 105, 111, 110>>

Black == <<0, 0, 0>>
\* The frames a non-static animation may render (one LED stands for the
\* strip): Nova clips its own output to [0,1], a plug-in need not.
RenderChoices == {Black, <<Unit, Unit \div 2, 0>>}
NextFrame(anim, choice) ==
    CASE anim.cls = AnimStatic -> anim.color
      [] anim.cls = AnimNova -> choice
      [] OTHER -> <<2 * choice[1], 2 * choice[2], 2 * choice[3]>>

\* -------------------------------------------------------------------- state
VARIABLES
    animationClasses,  \* state.animationClasses: registered classes, by ID + 1
    activeSceneId,     \* state.activeSceneId, or NoneId
    activeAnimation,   \* state.activeAnimation: <<>> (None) or <<instance>>
    scenes,            \* state.scenes: scene ID -> Scene
    brightness,        \* state.brightness, in units of 1/Unit
    sceneIdCtr,        \* state.sceneIdCtr
    mainswitch,        \* state.mainswitch
    targetFps,         \* state.targetFps
    buf,               \* state._buf: <<>> (not set) or <<last rendered frame>>
    callerRunning,     \* the PeriodicCallback self.caller is started
    callbackFps,       \* 1000 / self.caller.callback_time
    pendingRender,     \* _doNextFrame callbacks queued on the IOLoop
    seqNr,             \* GlinAppZmqPublisher.seqNr
    awaitingReply,     \* the REP socket took a request and sent no reply yet
    pub,               \* messages sent on the PUB socket by the last event
    ext,               \* calls on the animation and the hardware backend
                       \* made by the last event, in order
    reply,             \* outcome of the last event
    lastReq,           \* the last event: its kind and its request frames
    running,           \* execute() has started the IOLoop
    published,         \* sequence numbers sent on the PUB socket so far
    accepted,          \* number of operations that returned success so far
    snap,              \* messages sent on the ROUTER socket by the last event
    parsed,            \* outcome of the last call of a MessageParser method
    built,             \* frames the last call of a MessageBuilder method returned
    bufLive,           \* history: the instance that rendered _buf is the live one
    novas,             \* NovaAnimation.novas: the list of particles
    novaWrites,        \* the buffer writes of each particle in the last
                       \* render_next_frame, in list order
    libIn,             \* the arguments of the library call under way
    libOut             \* what the library call under way returned

appVars == <<animationClasses, activeSceneId, activeAnimation, scenes,
             brightness, sceneIdCtr, mainswitch, targetFps, buf,
             callerRunning, callbackFps, pendingRender>>
vars == <<animationClasses, activeSceneId, activeAnimation, scenes,
          brightness, sceneIdCtr, mainswitch, targetFps, buf, callerRunning,
          callbackFps, pendingRender, seqNr, awaitingReply, pub, ext, reply,
          lastReq, running, published, accepted, snap, parsed, built,
          bufLive, novas, novaWrites, libIn, libOut>>
\* The state of the server and of its codec.
serverVars == <<animationClasses, activeSceneId, activeAnimation, scenes,
                brightness, sceneIdCtr, mainswitch, targetFps, buf,
                callerRunning, callbackFps, pendingRender, seqNr,
                awaitingReply, pub, ext, reply, lastReq, running, published,
                accepted, snap, parsed, built, bufLive>>
\* The state of the library classes exercised on their own.
libVars == <<novas, novaWrites, libIn, libOut>>

\* Scene = namedtuple('Scene', 'animationId name color velocity config')
Scene(animationId, name, color, velocity, config) ==
    [animationId |-> animationId, name |-> name, color |-> color,
     velocity |-> velocity, config |-> config]

\* The result of a handler that has not returned yet.
NoRet ==
    [raised |-> FALSE, exc |-> "", n |-> 0, ok |-> FALSE, seq |-> 0, msg |-> ""]
\* return (ok, seq, msg)
Return(s, ok, seq, msg) ==
    [s EXCEPT !.ret = [raised |-> FALSE, exc |-> "", n |-> 3, ok |-> ok,
                       seq |-> seq, msg |-> msg]]
\* return (ok, seq, ): a tuple of two
Return2(s, ok, seq) ==
    [s EXCEPT !.ret = [raised |-> FALSE, exc |-> "", n |-> 2, ok |-> ok,
                       seq |-> seq, msg |-> ""]]
\* an exception leaves the handler
Raise(s, exc) ==
    [s EXCEPT !.ret = [raised |-> TRUE, exc |-> exc, n |-> 0, ok |-> FALSE,
                       seq |-> 0, msg |-> ""]]

\* The program state at the start of an event, as one record; pub and ext
\* collect what the event sends and calls.
Cur ==
    [animationClasses |-> animationClasses, activeSceneId |-> activeSceneId,
     activeAnimation |-> activeAnimation, scenes |-> scenes,
     brightness |-> brightness, sceneIdCtr |-> sceneIdCtr,
     mainswitch |-> mainswitch, targetFps |-> targetFps, buf |-> buf,
     callerRunning |-> callerRunning, callbackFps |-> callbackFps,
     pendingRender |-> pendingRender, seqNr |-> seqNr,
     pub |-> <<>>, ext |-> <<>>, snap |-> <<>>, ret |-> NoRet]

Call(name, arg) == [call |-> name, arg |-> arg]
Ext(s, name, arg) == [s EXCEPT !.ext = Append(@, Call(name, arg))]

\* ---------------------------------------------------- GlinAppZmqPublisher
\* Publish with the counter incremented after the send instead of before.
PublishPostIncrement(s, cmd, payload) ==
    [s EXCEPT !.seqNr = @ + 1,
              !.pub = Append(@, <<cmd, PackQ(s.seqNr)>> \o payload)]

\* self.seqNr += 1; self.publisher.send_multipart([cmd, pack("!Q", seqNr)] + payload)
Publish(s, cmd, payload) ==
    [s EXCEPT !.seqNr = @ + 1,
              !.pub = Append(@, <<cmd, PackQ(s.seqNr + 1)>> \o payload)]

PackColor(color) ==
    <<UnitToByte(color[1]), UnitToByte(color[2]), UnitToByte(color[3])>>

publishBrightness(s, b) == Publish(s, CmdBrightness, <<PackB(UnitToByte(b))>>)
publishMainSwitch(s, state) ==
    Publish(s, CmdMainswitchState, <<IF state THEN <<1>> ELSE <<0>> >>)
publishActiveScene(s, sceneId) ==
    Publish(s, CmdSceneSetactive, <<PackI(sceneId)>>)
publishAddScene(s, sceneId, animationId, name, color, velocity, config) ==
    Publish(s, CmdSceneAdd,
            <<PackI(sceneId), PackI(animationId), name, PackColor(color),
              PackI(VToMilli(velocity)), config>>)
publishRemoveScene(s, sceneId) == Publish(s, CmdSceneRm, <<PackI(sceneId)>>)
publishRenameScene(s, sceneId, name) ==
    Publish(s, CmdSceneName, <<PackI(sceneId), name>>)
publishReconfigScene(s, sceneId, config) ==
    Publish(s, CmdSceneConfig, <<PackI(sceneId), config>>)
publishRecolorScene(s, sceneId, color) ==
    Publish(s, CmdSceneColor, <<PackI(sceneId), PackColor(color)>>)
publishVelocityScene(s, sceneId, velocity) ==
    Publish(s, CmdSceneVelocity, <<PackI(sceneId), PackI(VToMilli(velocity))>>)

\* The keys of the dict state.scenes in iteration order, which is insertion
\* order: ascending, as every new key is larger than all keys before it and
\* replacing a value keeps the key's place.
RECURSIVE Items(_)
Items(S) ==
    IF S = {} THEN <<>>
    ELSE LET m == CHOOSE x \in S : \A y \in S : y >= x
         IN  <<m>> \o Items(S \ {m})

\* handle_snapshot counting the snapshot as a broadcast of its own.
handle_snapshot_numbered(s, msg) ==
    LET identity == msg[1]
        seq == PackQ(s.seqNr + 1)
        ids == Items(DOMAIN s.scenes)
    IN  [s EXCEPT !.seqNr = @ + 1, !.snap =
            <<  <<identity, CmdMainswitchState, seq,
                  IF s.mainswitch THEN <<1>> ELSE <<0>> >>,
                <<identity, CmdBrightness, seq,
                  PackB(UnitToByte(s.brightness))>>  >>
            \o [i \in 1..Len(s.animationClasses) |->
                  <<identity, CmdAnimationAdd, seq, PackI(i - 1),
                    AnimName(s.animationClasses[i])>>]
            \o [i \in 1..Len(ids) |->
                  LET sc == s.scenes[ids[i]]
                  IN  <<identity, CmdSceneAdd, seq, PackI(ids[i]),
                        PackI(sc.animationId), sc.name, PackColor(sc.color),
                        PackI(VToMilli(sc.velocity)), sc.config>>]
            \o <<  <<identity, CmdSceneSetactive, seq,
                     PackI(IF s.activeSceneId = NoneId THEN 0
                           ELSE s.activeSceneId)>>  >>]

\* handle_snapshot without the scene.add messages.
handle_snapshot_no_scenes(s, msg) ==
    LET identity == msg[1]
        seq == PackQ(s.seqNr)
    IN  [s EXCEPT !.snap =
            <<  <<identity, CmdMainswitchState, seq,
                  IF s.mainswitch THEN <<1>> ELSE <<0>> >>,
                <<identity, CmdBrightness, seq,
                  PackB(UnitToByte(s.brightness))>>  >>
            \o [i \in 1..Len(s.animationClasses) |->
                  <<identity, CmdAnimationAdd, seq, PackI(i - 1),
                    AnimName(s.animationClasses[i])>>]
            \o <<  <<identity, CmdSceneSetactive, seq,
                     PackI(IF s.activeSceneId = NoneId THEN 0
                           ELSE s.activeSceneId)>>  >>]

\* handle_snapshot: the state as messages for the peer msg[0], every one
\* with the publisher's sequence counter as it is
handle_snapshot(s, msg) ==
    LET identity == msg[1]
        seq == PackQ(s.seqNr)
        ids == Items(DOMAIN s.scenes)
    IN  [s EXCEPT !.snap =
            <<  <<identity, CmdMainswitchState, seq,
                  IF s.mainswitch THEN <<1>> ELSE <<0>> >>,
                <<identity, CmdBrightness, seq,
                  PackB(UnitToByte(s.brightness))>>  >>
            \o [i \in 1..Len(s.animationClasses) |->
                  <<identity, CmdAnimationAdd, seq, PackI(i - 1),
                    AnimName(s.animationClasses[i])>>]
            \o [i \in 1..Len(ids) |->
                  LET sc == s.scenes[ids[i]]
                  IN  <<identity, CmdSceneAdd, seq, PackI(ids[i]),
                        PackI(sc.animationId), sc.name, PackColor(sc.color),
                        PackI(VToMilli(sc.velocity)), sc.config>>]
            \o <<  <<identity, CmdSceneSetactive, seq,
                     PackI(IF s.activeSceneId = NoneId THEN 0
                           ELSE s.activeSceneId)>>  >>]

\* ------------------------------------------------------- GlinApp: rendering
Clip(x) == Min(Unit, Max(0, x))
ClipFrame(f) == <<Clip(f[1]), Clip(f[2]), Clip(f[3])>>
Scale(f, b) == <<(f[1] * b) \div Unit, (f[2] * b) \div Unit, (f[3] * b) \div Unit>>

\* np.clip(buf, 0, 1); buf *= brightness; hwComm.send(buf)
sendFrame(s, frame) == Ext(s, "hw.send", Scale(ClipFrame(frame), s.brightness))

\* _doNextFrame keeping the frame as it was sent, brightness applied.
doNextFrameCacheSent(s, choice) ==
    IF s.activeAnimation # <<>>
    THEN LET frame == NextFrame(s.activeAnimation[1], choice)
             s1 == Ext(s, "nextFrame", frame)
         IN  sendFrame([s1 EXCEPT !.buf =
                            <<Scale(ClipFrame(frame), s.brightness)>>], frame)
    ELSE s

\* _doNextFrame: render one frame of the live animation, keep a copy, send it
doNextFrame(s, choice) ==
    IF s.activeAnimation # <<>>
    THEN LET frame == NextFrame(s.activeAnimation[1], choice)
             s1 == Ext(s, "nextFrame", frame)
         IN  sendFrame([s1 EXCEPT !.buf = <<frame>>], frame)
    ELSE s

\* _repeatLastFrame without looking for a live animation.
repeatLastFrameNoLive(s) ==
    IF s.buf # <<>> /\ s.targetFps * 4 < ServerMaxFps
    THEN sendFrame(s, s.buf[1])
    ELSE s

\* _repeatLastFrame whatever the rate of the live animation.
repeatLastFrameAnyRate(s) ==
    IF s.buf # <<>> /\ s.activeAnimation # <<>>
    THEN sendFrame(s, s.buf[1])
    ELSE s

\* _repeatLastFrame
repeatLastFrame(s) ==
    IF s.buf # <<>> /\ s.activeAnimation # <<>> /\ s.targetFps * 4 < ServerMaxFps
    THEN sendFrame(s, s.buf[1])
    ELSE s

\* ------------------------------------------- GlinApp: activation lifecycle
\* _deactivateScene dropping the instance without finish().
deactivateSceneNoFinish(s) ==
    IF s.activeAnimation # <<>>
    THEN [Ext(s, "caller.stop", <<>>)
            EXCEPT !.callerRunning = FALSE, !.activeAnimation = <<>>]
    ELSE s

\* _deactivateScene
deactivateScene(s) ==
    IF s.activeAnimation # <<>>
    THEN [Ext(Ext(s, "caller.stop", <<>>), "finish", <<>>)
            EXCEPT !.callerRunning = FALSE, !.activeAnimation = <<>>]
    ELSE s

\* _activateScene taking the animation's rate as it is reported.
activateSceneUncapped(s) ==
    IF s.activeSceneId \in DOMAIN s.scenes
    THEN LET sc == s.scenes[s.activeSceneId]
             cls == s.animationClasses[sc.animationId + 1]
             fps == Max(0, AnimMaxFps(cls))
             inst == [cls |-> cls, color |-> sc.color,
                      velocity |-> sc.velocity, config |-> sc.config]
             s0 == Ext(Ext(Ext(Ext(Ext(s, "new", <<>>),
                                   "prepare", <<fps>>),
                               "setColor", sc.color),
                           "setVelocity", <<sc.velocity>>),
                       "setConfig", sc.config)
             s1 == IF fps > 0 THEN Ext(s0, "caller.start", <<fps>>) ELSE s0
         IN  [s1 EXCEPT !.activeAnimation = <<inst>>,
                        !.targetFps = fps,
                        !.callbackFps = IF fps > 0 THEN fps ELSE @,
                        !.callerRunning = IF fps > 0 THEN TRUE ELSE @,
                        !.pendingRender = @ + 1]
    ELSE [s EXCEPT !.activeAnimation = <<>>]

\* _activateScene starting the scheduler with the period it had.
activateSceneKeepPeriod(s) ==
    IF s.activeSceneId \in DOMAIN s.scenes
    THEN LET sc == s.scenes[s.activeSceneId]
             cls == s.animationClasses[sc.animationId + 1]
             fps == Max(0, Min(ServerMaxFps, Min(AnimMaxFps(cls), HwMaxFps)))
             inst == [cls |-> cls, color |-> sc.color,
                      velocity |-> sc.velocity, config |-> sc.config]
             s0 == Ext(Ext(Ext(Ext(Ext(s, "new", <<>>),
                                   "prepare", <<fps>>),
                               "setColor", sc.color),
                           "setVelocity", <<sc.velocity>>),
                       "setConfig", sc.config)
             s1 == IF fps > 0
                   THEN Ext(s0, "caller.start", <<s.callbackFps>>) ELSE s0
         IN  [s1 EXCEPT !.activeAnimation = <<inst>>,
                        !.targetFps = fps,
                        !.callerRunning = IF fps > 0 THEN TRUE ELSE @,
                        !.pendingRender = @ + 1]
    ELSE [s EXCEPT !.activeAnimation = <<>>]

\* _activateScene leaving the first render to the periodic callback.
activateSceneNoDeferred(s) ==
    IF s.activeSceneId \in DOMAIN s.scenes
    THEN LET sc == s.scenes[s.activeSceneId]
             cls == s.animationClasses[sc.animationId + 1]
             fps == Max(0, Min(ServerMaxFps, Min(AnimMaxFps(cls), HwMaxFps)))
             inst == [cls |-> cls, color |-> sc.color,
                      velocity |-> sc.velocity, config |-> sc.config]
             s0 == Ext(Ext(Ext(Ext(Ext(s, "new", <<>>),
                                   "prepare", <<fps>>),
                               "setColor", sc.color),
                           "setVelocity", <<sc.velocity>>),
                       "setConfig", sc.config)
             s1 == IF fps > 0 THEN Ext(s0, "caller.start", <<fps>>) ELSE s0
         IN  [s1 EXCEPT !.activeAnimation = <<inst>>,
                        !.targetFps = fps,
                        !.callbackFps = IF fps > 0 THEN fps ELSE @,
                        !.callerRunning = IF fps > 0 THEN TRUE ELSE @]
    ELSE [s EXCEPT !.activeAnimation = <<>>]

\* _activateScene
activateScene(s) ==
    IF s.activeSceneId \in DOMAIN s.scenes
    THEN LET sc == s.scenes[s.activeSceneId]
             cls == s.animationClasses[sc.animationId + 1]
             fps == Max(0, Min(ServerMaxFps, Min(AnimMaxFps(cls), HwMaxFps)))
             inst == [cls |-> cls, color |-> sc.color,
                      velocity |-> sc.velocity, config |-> sc.config]
             s0 == Ext(Ext(Ext(Ext(Ext(s, "new", <<>>),
                                   "prepare", <<fps>>),
                               "setColor", sc.color),
                           "setVelocity", <<sc.velocity>>),
                       "setConfig", sc.config)
             s1 == IF fps > 0 THEN Ext(s0, "caller.start", <<fps>>) ELSE s0
         IN  [s1 EXCEPT !.activeAnimation = <<inst>>,
                        !.targetFps = fps,
                        !.callbackFps = IF fps > 0 THEN fps ELSE @,
                        !.callerRunning = IF fps > 0 THEN TRUE ELSE @,
                        !.pendingRender = @ + 1]
    ELSE [s EXCEPT !.activeAnimation = <<>>]

\* ------------------------------------------------- GlinApp: the operations
\* setActiveScene activating the scene also while the main switch is off.
setActiveSceneIgnoreSwitch(s, sceneId) ==
    IF s.activeSceneId # sceneId
    THEN LET s1 == publishActiveScene(deactivateScene(s), sceneId)
             s2 == [s1 EXCEPT !.activeSceneId = sceneId]
             s3 == activateScene(s2)
         IN  Return(s3, TRUE, s1.seqNr, "OK")
    ELSE Return(s, FALSE, 0, "This already is the activated scene.")

\* setActiveScene without deactivating the animation that is live.
setActiveSceneNoDeactivate(s, sceneId) ==
    IF s.activeSceneId # sceneId
    THEN LET s1 == publishActiveScene(s, sceneId)
             s2 == [s1 EXCEPT !.activeSceneId = sceneId]
             s3 == IF s2.mainswitch THEN activateScene(s2) ELSE s2
         IN  Return(s3, TRUE, s1.seqNr, "OK")
    ELSE Return(s, FALSE, 0, "This already is the activated scene.")

\* setActiveScene
setActiveScene(s, sceneId) ==
    IF s.activeSceneId # sceneId
    THEN LET s1 == publishActiveScene(deactivateScene(s), sceneId)
             s2 == [s1 EXCEPT !.activeSceneId = sceneId]
             s3 == IF s2.mainswitch THEN activateScene(s2) ELSE s2
         IN  Return(s3, TRUE, s1.seqNr, "OK")
    ELSE Return(s, FALSE, 0, "This already is the activated scene.")

\* setBrightness without the clamp to 0 ... 1.
setBrightnessNoClamp(s, b) ==
    LET s1 == repeatLastFrame([s EXCEPT !.brightness = b])
        s2 == publishBrightness(s1, b)
    IN  Return(s2, TRUE, s2.seqNr, "OK")

\* setBrightness
setBrightness(s, b) ==
    LET clamped == Min(Unit, Max(b, 0))
        s1 == repeatLastFrame([s EXCEPT !.brightness = clamped])
        s2 == publishBrightness(s1, clamped)
    IN  Return(s2, TRUE, s2.seqNr, "OK")

\* registerAnimation
registerAnimation(s, cls) ==
    [s EXCEPT !.animationClasses = Append(@, cls)]

\* registerScene returning the publisher's counter as it is at the end.
registerSceneLastSeq(s, animationId, name, color, velocity, config) ==
    IF animationId < 0 \/ animationId >= Len(s.animationClasses)
    THEN Return(s, FALSE, 0, "Requested to register scene with invalid Animation ID. Out of range.")
    ELSE IF ~CheckConfig(s.animationClasses[animationId + 1], config)
    THEN Return(s, FALSE, 0, "Requested to register scene with invalid configuration.")
    ELSE LET id == s.sceneIdCtr + 1
             s1 == [s EXCEPT !.sceneIdCtr = id,
                             !.scenes = (id :> Scene(animationId, name, color,
                                                     velocity, config)) @@ @]
             s2 == publishAddScene(s1, id, animationId, name, color, velocity,
                                   config)
             s3 == IF s2.activeSceneId = NoneId
                   THEN setActiveScene(s2, id) ELSE s2
         IN  Return(s3, TRUE, s3.seqNr, "OK")

\* registerScene activating the new scene whenever the scenes map was empty.
registerSceneWhenEmpty(s, animationId, name, color, velocity, config) ==
    IF animationId < 0 \/ animationId >= Len(s.animationClasses)
    THEN Return(s, FALSE, 0, "Requested to register scene with invalid Animation ID. Out of range.")
    ELSE IF ~CheckConfig(s.animationClasses[animationId + 1], config)
    THEN Return(s, FALSE, 0, "Requested to register scene with invalid configuration.")
    ELSE LET id == s.sceneIdCtr + 1
             s1 == [s EXCEPT !.sceneIdCtr = id,
                             !.scenes = (id :> Scene(animationId, name, color,
                                                     velocity, config)) @@ @]
             s2 == publishAddScene(s1, id, animationId, name, color, velocity,
                                   config)
             s3 == IF DOMAIN s.scenes = {}
                   THEN setActiveScene(s2, id) ELSE s2
         IN  Return(s3, TRUE, s2.seqNr, "OK")

\* registerScene taking the ID after the largest ID in use.
registerSceneReuseId(s, animationId, name, color, velocity, config) ==
    IF animationId < 0 \/ animationId >= Len(s.animationClasses)
    THEN Return(s, FALSE, 0, "Requested to register scene with invalid Animation ID. Out of range.")
    ELSE IF ~CheckConfig(s.animationClasses[animationId + 1], config)
    THEN Return(s, FALSE, 0, "Requested to register scene with invalid configuration.")
    ELSE LET id == 1 + Cardinality({i \in 1..s.sceneIdCtr :
                                       \E j \in DOMAIN s.scenes : j >= i})
             s1 == [s EXCEPT !.sceneIdCtr = id,
                             !.scenes = (id :> Scene(animationId, name, color,
                                                     velocity, config)) @@ @]
             s2 == publishAddScene(s1, id, animationId, name, color, velocity,
                                   config)
             s3 == IF s2.activeSceneId = NoneId
                   THEN setActiveScene(s2, id) ELSE s2
         IN  Return(s3, TRUE, s2.seqNr, "OK")

\* registerScene advancing the scene ID counter before the config check.
registerSceneCountFirst(s, animationId, name, color, velocity, config) ==
    IF animationId < 0 \/ animationId >= Len(s.animationClasses)
    THEN Return(s, FALSE, 0, "Requested to register scene with invalid Animation ID. Out of range.")
    ELSE LET id == s.sceneIdCtr + 1
             s0 == [s EXCEPT !.sceneIdCtr = id]
         IN  IF ~CheckConfig(s.animationClasses[animationId + 1], config)
             THEN Return(s0, FALSE, 0, "Requested to register scene with invalid configuration.")
             ELSE LET s1 == [s0 EXCEPT !.scenes =
                                (id :> Scene(animationId, name, color,
                                             velocity, config)) @@ @]
                      s2 == publishAddScene(s1, id, animationId, name, color,
                                            velocity, config)
                      s3 == IF s2.activeSceneId = NoneId
                            THEN setActiveScene(s2, id) ELSE s2
                  IN  Return(s3, TRUE, s2.seqNr, "OK")

\* registerScene
registerScene(s, animationId, name, color, velocity, config) ==
    IF animationId < 0 \/ animationId >= Len(s.animationClasses)
    THEN Return(s, FALSE, 0, "Requested to register scene with invalid Animation ID. Out of range.")
    ELSE IF ~CheckConfig(s.animationClasses[animationId + 1], config)
    THEN Return(s, FALSE, 0, "Requested to register scene with invalid configuration.")
    ELSE LET id == s.sceneIdCtr + 1
             s1 == [s EXCEPT !.sceneIdCtr = id,
                             !.scenes = (id :> Scene(animationId, name, color,
                                                     velocity, config)) @@ @]
             s2 == publishAddScene(s1, id, animationId, name, color, velocity,
                                   config)
             s3 == IF s2.activeSceneId = NoneId
                   THEN setActiveScene(s2, id) ELSE s2
         IN  Return(s3, TRUE, s2.seqNr, "OK")

\* removeScene without the check for the active scene.
removeSceneNoGuard(s, sceneId) ==
    IF sceneId \notin DOMAIN s.scenes
    THEN Return(s, FALSE, 0, "Requested to delete scene, which does not exist")
    ELSE LET s1 == [s EXCEPT !.scenes =
                        [i \in (DOMAIN @) \ {sceneId} |-> @[i]]]
             s2 == publishRemoveScene(s1, sceneId)
         IN  Return(s2, TRUE, s2.seqNr, "OK")

\* removeScene
removeScene(s, sceneId) ==
    IF s.activeSceneId = sceneId
    THEN Return(s, FALSE, 0, "Requested to delete scene, which is currently active. Cannot delete active scene.")
    ELSE IF sceneId \notin DOMAIN s.scenes
    THEN Return(s, FALSE, 0, "Requested to delete scene, which does not exist")
    ELSE LET s1 == [s EXCEPT !.scenes =
                        [i \in (DOMAIN @) \ {sceneId} |-> @[i]]]
             s2 == publishRemoveScene(s1, sceneId)
         IN  Return(s2, TRUE, s2.seqNr, "OK")

\* renameScene
renameScene(s, sceneId, name) ==
    IF sceneId \notin DOMAIN s.scenes
    THEN Return(s, FALSE, 0, "Requested to rename scene, which does not exist")
    ELSE LET s1 == [s EXCEPT !.scenes[sceneId].name = name]
             s2 == publishRenameScene(s1, sceneId, name)
         IN  Return(s2, TRUE, s2.seqNr, "OK")

\* reconfigScene handing the config to the live animation of the scene.
reconfigSceneLive(s, sceneId, config) ==
    IF sceneId \notin DOMAIN s.scenes
    THEN Return(s, FALSE, 0, "Requested to reconfigure scene, which does not exist")
    ELSE LET s1 == [s EXCEPT !.scenes[sceneId].config = config]
             s2 == publishReconfigScene(s1, sceneId, config)
             s3 == IF sceneId = s2.activeSceneId /\ s2.activeAnimation # <<>>
                   THEN [Ext(s2, "setConfig", config)
                           EXCEPT !.activeAnimation[1].config = config]
                   ELSE s2
         IN  Return(s3, TRUE, s2.seqNr, "OK")

\* reconfigScene
reconfigScene(s, sceneId, config) ==
    IF sceneId \notin DOMAIN s.scenes
    THEN Return(s, FALSE, 0, "Requested to reconfigure scene, which does not exist")
    ELSE LET s1 == [s EXCEPT !.scenes[sceneId].config = config]
             s2 == publishReconfigScene(s1, sceneId, config)
         IN  Return(s2, TRUE, s2.seqNr, "OK")

\* recolorScene publishing before it stores the colour: the broadcast carries
\* the colour the scene had.
recolorScenePublishFirst(s, sceneId, color, choice) ==
    IF sceneId \notin DOMAIN s.scenes
    THEN Return(s, FALSE, 0, "Requested to recolor scene, which does not exist")
    ELSE LET s1 == publishRecolorScene(s, sceneId, s.scenes[sceneId].color)
             s2 == [s1 EXCEPT !.scenes[sceneId].color = color]
         IN  IF sceneId # s2.activeSceneId
             THEN Return(s2, TRUE, s2.seqNr, "OK")
             ELSE IF s2.activeAnimation = <<>>
             THEN Raise(s2, "AttributeError")
             ELSE LET s3 == [Ext(s2, "setColor", color)
                               EXCEPT !.activeAnimation[1].color = color]
                  IN  Return(doNextFrame(s3, choice), TRUE, s2.seqNr, "OK")

\* recolorScene: on the active scene it calls setColor on
\* state.activeAnimation, which is None while nothing is activated
recolorScene(s, sceneId, color, choice) ==
    IF sceneId \notin DOMAIN s.scenes
    THEN Return(s, FALSE, 0, "Requested to recolor scene, which does not exist")
    ELSE LET s1 == [s EXCEPT !.scenes[sceneId].color = color]
             s2 == publishRecolorScene(s1, sceneId, color)
         IN  IF sceneId # s2.activeSceneId
             THEN Return(s2, TRUE, s2.seqNr, "OK")
             ELSE IF s2.activeAnimation = <<>>
             THEN Raise(s2, "AttributeError")
             ELSE LET s3 == [Ext(s2, "setColor", color)
                               EXCEPT !.activeAnimation[1].color = color]
                  IN  Return(doNextFrame(s3, choice), TRUE, s2.seqNr, "OK")

\* velocityScene leaving the next frame to the scheduler.
velocitySceneNoRender(s, sceneId, velocity, choice) ==
    IF sceneId \notin DOMAIN s.scenes
    THEN Return(s, FALSE, 0, "Requested to set velocity on scene, which does not exist")
    ELSE LET s1 == [s EXCEPT !.scenes[sceneId].velocity = velocity]
             s2 == publishVelocityScene(s1, sceneId, velocity)
         IN  IF sceneId # s2.activeSceneId
             THEN Return(s2, TRUE, s2.seqNr, "OK")
             ELSE IF s2.activeAnimation = <<>>
             THEN Raise(s2, "AttributeError")
             ELSE LET s3 == [Ext(s2, "setVelocity", <<velocity>>)
                               EXCEPT !.activeAnimation[1].velocity = velocity]
                  IN  Return(s3, TRUE, s2.seqNr, "OK")

\* velocityScene: as recolorScene, with setVelocity
velocityScene(s, sceneId, velocity, choice) ==
    IF sceneId \notin DOMAIN s.scenes
    THEN Return(s, FALSE, 0, "Requested to set velocity on scene, which does not exist")
    ELSE LET s1 == [s EXCEPT !.scenes[sceneId].velocity = velocity]
             s2 == publishVelocityScene(s1, sceneId, velocity)
         IN  IF sceneId # s2.activeSceneId
             THEN Return(s2, TRUE, s2.seqNr, "OK")
             ELSE IF s2.activeAnimation = <<>>
             THEN Raise(s2, "AttributeError")
             ELSE LET s3 == [Ext(s2, "setVelocity", <<velocity>>)
                               EXCEPT !.activeAnimation[1].velocity = velocity]
                  IN  Return(doNextFrame(s3, choice), TRUE, s2.seqNr, "OK")

\* setMainSwitch leaving the live animation alone when switching off.
setMainSwitchKeepScene(s, state) ==
    IF s.mainswitch = state
    THEN Return(s, FALSE, 0,
                IF state THEN "MainSwitch unchanged, already is On"
                         ELSE "MainSwitch unchanged, already is Off")
    ELSE LET s1 == publishMainSwitch([s EXCEPT !.mainswitch = state], state)
             s2 == IF state
                   THEN activateScene(Ext(s1, "hw.switchOn", <<>>))
                   ELSE Ext(s1, "hw.switchOff", <<>>)
         IN  Return(s2, TRUE, s1.seqNr, "OK")

\* setMainSwitch without the check for an unchanged state.
setMainSwitchNoGuard(s, state) ==
    LET s1 == publishMainSwitch([s EXCEPT !.mainswitch = state], state)
        s2 == IF state
              THEN activateScene(Ext(s1, "hw.switchOn", <<>>))
              ELSE Ext(deactivateScene(s1), "hw.switchOff", <<>>)
    IN  Return(s2, TRUE, s1.seqNr, "OK")

\* setMainSwitch
setMainSwitch(s, state) ==
    IF s.mainswitch = state
    THEN Return(s, FALSE, 0,
                IF state THEN "MainSwitch unchanged, already is On"
                         ELSE "MainSwitch unchanged, already is Off")
    ELSE LET s1 == publishMainSwitch([s EXCEPT !.mainswitch = state], state)
             s2 == IF state
                   THEN activateScene(Ext(s1, "hw.switchOn", <<>>))
                   ELSE Ext(deactivateScene(s1), "hw.switchOff", <<>>)
         IN  Return(s2, TRUE, s1.seqNr, "OK")

\* toggleMainSwitch
toggleMainSwitch(s) == setMainSwitch(s, ~s.mainswitch)

\* ---------------------------------------------------- GlinAppZmqCollector
\* _parse_color: three bytes, each / 255
parseColor(f) == <<ByteToUnit(f[1]), ByteToUnit(f[2]), ByteToUnit(f[3])>>

\* A request msg is a sequence of frames; msg[i + 1] here is msg[i] there.
handleCollectBrightness(s, msg) ==
    IF Len(msg) # 2
    THEN Return2(s, FALSE, 0)
    ELSE IF Len(msg[2]) # 1
    THEN Return(s, FALSE, 0, "Invalid brightness message. Parameter must be exactly 1 Byte")
    ELSE setBrightness(s, ByteToUnit(msg[2][1]))

handleCollectMainswitchState(s, msg) ==
    IF Len(msg) # 2
    THEN Return(s, FALSE, 0, "Invalid mainswitch.state message. Expected 2 frames")
    ELSE IF Len(msg[2]) # 1
    THEN Return(s, FALSE, 0, "Invalid mainswitch.state message. Parameter must be exactly 1 Byte")
    ELSE IF msg[2] = <<0>>
    THEN setMainSwitch(s, FALSE)
    ELSE setMainSwitch(s, TRUE)

handleCollectMainswitchToggle(s, msg) ==
    IF Len(msg) # 1
    THEN Return(s, FALSE, 0, "Invalid mainswitch.toggle message. Expected 1 frame")
    ELSE toggleMainSwitch(s)

handleCollectSceneAdd(s, msg) ==
    IF Len(msg) # 5 /\ Len(msg) # 6
    THEN Return(s, FALSE, 0, "Invalid scene.add message. Expected 5 or 6 frames")
    ELSE IF Len(msg[2]) # 4
    THEN Return(s, FALSE, 0, "Invalid scene.add message. AnimationId should be exactly 4 Bytes")
    ELSE IF Len(msg[4]) # 3
    THEN Return(s, FALSE, 0, "Invalid scene.add message. Color should be exactly 3 Bytes")
    ELSE IF Len(msg[5]) # 4
    THEN Return(s, FALSE, 0, "Invalid scene.add message. Color should be exactly 4 Bytes")
    ELSE IF (Len(msg) = 6 /\ ~Utf8Valid(msg[6])) \/ ~Utf8Valid(msg[3])
    THEN Return(s, FALSE, 0, "Invalid scene.add message. Contained invalid Unicode Characters.")
    ELSE registerScene(s, Unpack(msg[2]), msg[3], parseColor(msg[4]),
                       MilliToV(Unpack(msg[5])),
                       IF Len(msg) = 6 THEN msg[6] ELSE TextEmpty)

handleCollectSceneRecolor(s, msg, choice) ==
    IF Len(msg) # 3
    THEN Return(s, FALSE, 0, "Invalid scene.color message. Expected 3 frames")
    ELSE IF Len(msg[2]) # 4
    THEN Return(s, FALSE, 0, "Invalid scene.color message. SceneId should be exactly 4 Bytes")
    ELSE IF Len(msg[3]) # 3
    THEN Return(s, FALSE, 0, "Invalid scene.color message. Color should be exactly 3 Bytes")
    ELSE recolorScene(s, Unpack(msg[2]), parseColor(msg[3]), choice)

handleCollectSceneVelocity(s, msg, choice) ==
    IF Len(msg) # 3
    THEN Return(s, FALSE, 0, "Invalid scene.velocity message. Expected 3 frames")
    ELSE IF Len(msg[2]) # 4
    THEN Return(s, FALSE, 0, "Invalid scene.velocity message. SceneId should be exactly 4 Bytes")
    ELSE IF Len(msg[3]) # 4
    THEN Return(s, FALSE, 0, "Invalid scene.velocity message. Velocity should be exactly 4 Bytes")
    ELSE velocityScene(s, Unpack(msg[2]), MilliToV(Unpack(msg[3])), choice)

handleCollectSceneReconfig(s, msg) ==
    IF Len(msg) # 3
    THEN Return(s, FALSE, 0, "Invalid scene.config message. Expected 3 frames")
    ELSE IF Len(msg[2]) # 4
    THEN Return(s, FALSE, 0, "Invalid scene.config message. SceneId should be exactly 4 Bytes")
    ELSE IF ~Utf8Valid(msg[3])
    THEN Return(s, FALSE, 0, "Invalid scene.config message. Configuration contained invalid Unicode Characters.")
    ELSE reconfigScene(s, Unpack(msg[2]), msg[3])

handleCollectSceneRename(s, msg) ==
    IF Len(msg) # 3
    THEN Return(s, FALSE, 0, "Invalid scene.name message. Expected 3 frames")
    ELSE IF Len(msg[2]) # 4
    THEN Return(s, FALSE, 0, "Invalid scene.name message. SceneId should be exactly 4 Bytes")
    ELSE IF ~Utf8Valid(msg[3])
    THEN Return(s, FALSE, 0, "Invalid scene.name message. Name contained invalid Unicode Characters.")
    ELSE renameScene(s, Unpack(msg[2]), msg[3])

handleCollectSceneRm(s, msg) ==
    IF Len(msg) # 2
    THEN Return(s, FALSE, 0, "Invalid scene.rm message. Expected 2 frames")
    ELSE IF Len(msg[2]) # 4
    THEN Return(s, FALSE, 0, "Invalid scene.rm message. SceneId should be exactly 4 Bytes")
    ELSE removeScene(s, Unpack(msg[2]))

handleCollectSceneSetactive(s, msg) ==
    IF Len(msg) # 2
    THEN Return(s, FALSE, 0, "Invalid scene.setactive message. Expected 2 frames")
    ELSE IF Len(msg[2]) # 4
    THEN Return(s, FALSE, 0, "Invalid scene.setactive message. SceneId should be exactly 4 Bytes")
    ELSE setActiveScene(s, Unpack(msg[2]))

\* _handle_collect: dispatch on frame 0
handleCollectDispatch(s, msg, choice) ==
    IF Len(msg) < 1
    THEN Return(s, FALSE, 0, "Got empty message. Ignoring.")
    ELSE CASE msg[1] = CmdBrightness -> handleCollectBrightness(s, msg)
           [] msg[1] = CmdMainswitchState -> handleCollectMainswitchState(s, msg)
           [] msg[1] = CmdMainswitchToggle -> handleCollectMainswitchToggle(s, msg)
           [] msg[1] = CmdSceneAdd -> handleCollectSceneAdd(s, msg)
           [] msg[1] = CmdSceneConfig -> handleCollectSceneReconfig(s, msg)
           [] msg[1] = CmdSceneColor -> handleCollectSceneRecolor(s, msg, choice)
           [] msg[1] = CmdSceneVelocity -> handleCollectSceneVelocity(s, msg, choice)
           [] msg[1] = CmdSceneName -> handleCollectSceneRename(s, msg)
           [] msg[1] = CmdSceneRm -> handleCollectSceneRm(s, msg)
           [] msg[1] = CmdSceneSetactive -> handleCollectSceneSetactive(s, msg)
           [] OTHER -> Return(s, FALSE, 0, "Invalid Command")

\* handle_collect: (success, seqNr, comment) = self._handle_collect(msg),
\* then the reply is sent.  An exception of the handler, or a result that is
\* no triple, leaves handle_collect before the reply.
handleCollect(s, msg, choice) ==
    LET r == handleCollectDispatch(s, msg, choice)
    IN  IF r.ret.raised THEN r
        ELSE IF r.ret.n # 3 THEN Raise(r, "ValueError")
        ELSE r

\* The reply frames of handle_collect: the flag, pack("!I", seqNr) and the
\* comment (kept as text).
NoReply ==
    [status |-> "none", exc |-> "", success |-> FALSE, seqNr |-> 0,
     comment |-> "", frames |-> <<>>]
ReplyOf(ret) ==
    IF ret.raised
    THEN [status |-> "raised", exc |-> ret.exc, success |-> FALSE, seqNr |-> 0,
          comment |-> "", frames |-> <<>>]
    ELSE [status |-> "sent", exc |-> "", success |-> ret.ok, seqNr |-> ret.seq,
          comment |-> ret.msg,
          frames |-> <<IF ret.ok THEN <<1>> ELSE <<0>>, PackI(ret.seq),
                       ret.msg>>]

\* ---------------------------------------------- MessageReader, MessageParser
\* The outcome of a parser call: nothing called, the tuple returned, or
\* MessageParserError raised.
NoParse == [status |-> "none", value |-> <<>>]
Parsed(value) == [status |-> "ok", value |-> value]
ParseError == [status |-> "error", value |-> <<>>]

\* MessageReader(frames): the frames left, the results so far, and whether
\* MessageParserError was raised (the calls after it do not happen)
MessageReader(frames) == [frames |-> frames, results |-> <<>>, error |-> FALSE]

\* MessageReader.string
Reader_string(r, name) ==
    IF r.error THEN r
    ELSE IF r.frames = <<>> THEN [r EXCEPT !.error = TRUE]
    ELSE IF ~Utf8Valid(Head(r.frames))
    THEN [r EXCEPT !.frames = Tail(@), !.error = TRUE]
    ELSE [r EXCEPT !.frames = Tail(@),
                   !.results = (name :> Head(r.frames)) @@ @]

\* MessageReader.bool taking only 0x01 for True.
Reader_bool_strict(r, name) ==
    IF r.error THEN r
    ELSE IF r.frames = <<>> THEN [r EXCEPT !.error = TRUE]
    ELSE IF Len(Head(r.frames)) # 1
    THEN [r EXCEPT !.frames = Tail(@), !.error = TRUE]
    ELSE [r EXCEPT !.frames = Tail(@),
                   !.results = (name :> (Head(r.frames) = <<1>>)) @@ @]

\* MessageReader.bool: one byte, True unless it is 0x00
Reader_bool(r, name) ==
    IF r.error THEN r
    ELSE IF r.frames = <<>> THEN [r EXCEPT !.error = TRUE]
    ELSE IF Len(Head(r.frames)) # 1
    THEN [r EXCEPT !.frames = Tail(@), !.error = TRUE]
    ELSE [r EXCEPT !.frames = Tail(@),
                   !.results = (name :> (Head(r.frames) # <<0>>)) @@ @]

\* MessageReader.assert_end
Reader_assert_end(r) ==
    IF r.error THEN r
    ELSE IF r.frames # <<>> THEN [r EXCEPT !.error = TRUE]
    ELSE r

\* MessageParser.mainswirch_state
Parser_mainswirch_state(frames) ==
    LET reader == MessageReader(frames)
        res == Reader_assert_end(
                   Reader_bool(Reader_string(reader, "command"), "state"))
    IN  IF res.error THEN ParseError ELSE Parsed(<<res.results["state"]>>)

\* MessageReader.uint8_3: three bytes
Reader_uint8_3(r, name) ==
    IF r.error THEN r
    ELSE IF r.frames = <<>> THEN [r EXCEPT !.error = TRUE]
    ELSE IF Len(Head(r.frames)) # 3
    THEN [r EXCEPT !.frames = Tail(@), !.error = TRUE]
    ELSE [r EXCEPT !.frames = Tail(@),
                   !.results = (name :> Head(r.frames)) @@ @]

\* MessageReader.uint32: four bytes, big-endian
Reader_uint32(r, name) ==
    IF r.error THEN r
    ELSE IF r.frames = <<>> THEN [r EXCEPT !.error = TRUE]
    ELSE IF Len(Head(r.frames)) # 4
    THEN [r EXCEPT !.frames = Tail(@), !.error = TRUE]
    ELSE [r EXCEPT !.frames = Tail(@),
                   !.results = (name :> Unpack(Head(r.frames))) @@ @]

\* the parser's check of the command name, once the reader is through
CheckCommand(res, cmd, value) ==
    IF res.error \/ res.results["command"] # cmd THEN ParseError
    ELSE Parsed(value)

\* MessageParser.scene_add (no assert_end)
Parser_scene_add(frames) ==
    LET res == Reader_string(Reader_uint32(Reader_uint8_3(Reader_string(
                   Reader_uint32(Reader_string(MessageReader(frames),
                   "command"), "animation_id"), "name"), "color"),
                   "velocity"), "config")
    IN  IF res.error THEN ParseError
        ELSE CheckCommand(res, CmdSceneAdd,
                 <<res.results["animation_id"], res.results["name"],
                   parseColor(res.results["color"]),
                   MilliToV(res.results["velocity"]), res.results["config"]>>)

\* MessageParser.scene_color
Parser_scene_color(frames) ==
    LET res == Reader_assert_end(Reader_uint8_3(Reader_uint32(Reader_string(
                   MessageReader(frames), "command"), "scene_id"), "color"))
    IN  IF res.error THEN ParseError
        ELSE CheckCommand(res, CmdSceneColor,
                 <<res.results["scene_id"], parseColor(res.results["color"])>>)

\* MessageParser.scene_config
Parser_scene_config(frames) ==
    LET res == Reader_assert_end(Reader_string(Reader_uint32(Reader_string(
                   MessageReader(frames), "command"), "scene_id"), "config"))
    IN  IF res.error THEN ParseError
        ELSE CheckCommand(res, CmdSceneConfig,
                 <<res.results["scene_id"], res.results["config"]>>)

\* MessageParser.scene_name
Parser_scene_name(frames) ==
    LET res == Reader_assert_end(Reader_string(Reader_uint32(Reader_string(
                   MessageReader(frames), "command"), "scene_id"), "name"))
    IN  IF res.error THEN ParseError
        ELSE CheckCommand(res, CmdSceneName,
                 <<res.results["scene_id"], res.results["name"]>>)

\* MessageParser.scene_remove
Parser_scene_remove(frames) ==
    LET res == Reader_assert_end(Reader_uint32(Reader_string(
                   MessageReader(frames), "command"), "scene_id"))
    IN  IF res.error THEN ParseError
        ELSE CheckCommand(res, CmdSceneRm, <<res.results["scene_id"]>>)

\* MessageParser.scene_active
Parser_scene_active(frames) ==
    LET res == Reader_assert_end(Reader_uint32(Reader_string(
                   MessageReader(frames), "command"), "scene_id"))
    IN  IF res.error THEN ParseError
        ELSE CheckCommand(res, CmdSceneSetactive, <<res.results["scene_id"]>>)

\* MessageParser.scene_velocity
Parser_scene_velocity(frames) ==
    LET res == Reader_assert_end(Reader_uint32(Reader_uint32(Reader_string(
                   MessageReader(frames), "command"), "scene_id"), "velocity"))
    IN  IF res.error THEN ParseError
        ELSE CheckCommand(res, CmdSceneVelocity,
                 <<res.results["scene_id"],
                   MilliToV(res.results["velocity"])>>)

\* MessageParser has no method for the command: the call raises
\* AttributeError.
NoParser == [status |-> "no parser", value |-> <<>>]

\* The parser of the command cmd applied to frames.
ParserOf(cmd, frames) ==
    CASE cmd = CmdMainswitchState -> Parser_mainswirch_state(frames)
      [] cmd = CmdSceneAdd -> Parser_scene_add(frames)
      [] cmd = CmdSceneColor -> Parser_scene_color(frames)
      [] cmd = CmdSceneConfig -> Parser_scene_config(frames)
      [] cmd = CmdSceneName -> Parser_scene_name(frames)
      [] cmd = CmdSceneRm -> Parser_scene_remove(frames)
      [] cmd = CmdSceneSetactive -> Parser_scene_active(frames)
      [] cmd = CmdSceneVelocity -> Parser_scene_velocity(frames)
      [] OTHER -> NoParser

\* ----------------------------------------------- MessageWriter, MessageBuilder
\* MessageWriter(): the frames written so far
MessageWriter == <<>>
\* MessageWriter.string: text is held as its UTF-8 bytes
Writer_string(w, val) == Append(w, val)
\* MessageWriter.bool
Writer_bool(w, val) == Append(w, IF val THEN <<1>> ELSE <<0>>)
\* MessageWriter.uint8
Writer_uint8(w, val) == Append(w, PackB(val))
\* MessageWriter.uint8_3
Writer_uint8_3(w, val1, val2, val3) == Append(w, <<val1, val2, val3>>)
\* MessageWriter.uint32
Writer_uint32(w, val) == Append(w, PackI(val))
\* MessageWriter.uint64 packing four bytes.
Writer_uint64_short(w, val) == Append(w, PackI(val))
\* MessageWriter.uint64
Writer_uint64(w, val) == Append(w, PackQ(val))

\* MessageBuilder.brightness
Builder_brightness(sequence_number, b) ==
    Writer_uint8(Writer_uint64(Writer_string(MessageWriter, CmdBrightness),
                 sequence_number), UnitToByte(b))
\* MessageBuilder.mainswirch_state
Builder_mainswirch_state(sequence_number, state) ==
    Writer_bool(Writer_uint64(Writer_string(MessageWriter, CmdMainswitchState),
                sequence_number), state)
\* MessageBuilder.animation_add
Builder_animation_add(sequence_number, animation_id, name) ==
    Writer_string(Writer_uint32(Writer_uint64(Writer_string(MessageWriter,
                  CmdAnimationAdd), sequence_number), animation_id), name)
\* MessageBuilder.scene_active
Builder_scene_active(sequence_number, scene_id) ==
    Writer_uint32(Writer_uint64(Writer_string(MessageWriter,
                  CmdSceneSetactive), sequence_number), scene_id)
\* MessageBuilder.scene_add
Builder_scene_add(sequence_number, scene_id, animation_id, name, color, velocity, config) ==
    Writer_string(Writer_uint32(Writer_uint8_3(Writer_string(Writer_uint32(
        Writer_uint32(Writer_uint64(Writer_string(MessageWriter, CmdSceneAdd),
        sequence_number), scene_id), animation_id), name),
        UnitToByte(color[1]), UnitToByte(color[2]), UnitToByte(color[3])),
        VToMilli(velocity)), config)
\* MessageBuilder.scene_remove
Builder_scene_remove(sequence_number, scene_id) ==
    Writer_uint32(Writer_uint64(Writer_string(MessageWriter, CmdSceneRm),
                  sequence_number), scene_id)
\* MessageBuilder.scene_name
Builder_scene_name(sequence_number, scene_id, name) ==
    Writer_string(Writer_uint32(Writer_uint64(Writer_string(MessageWriter,
                  CmdSceneName), sequence_number), scene_id), name)
\* MessageBuilder.scene_config
Builder_scene_config(sequence_number, scene_id, config) ==
    Writer_string(Writer_uint32(Writer_uint64(Writer_string(MessageWriter,
                  CmdSceneConfig), sequence_number), scene_id), config)
\* MessageBuilder.scene_color
Builder_scene_color(sequence_number, scene_id, color) ==
    Writer_uint8_3(Writer_uint32(Writer_uint64(Writer_string(MessageWriter,
                   CmdSceneColor), sequence_number), scene_id),
                   UnitToByte(color[1]), UnitToByte(color[2]),
                   UnitToByte(color[3]))
\* MessageBuilder.scene_velocity
Builder_scene_velocity(sequence_number, scene_id, velocity) ==
    Writer_uint32(Writer_uint32(Writer_uint64(Writer_string(MessageWriter,
                  CmdSceneVelocity), sequence_number), scene_id),
                  VToMilli(velocity))

\* A call of a builder is held as <<command, <<sequence number>>, argument,
\* ...>>, every argument a tuple: <<n>> for a number (a float in its unit),
\* <<0>> or <<1>> for a boolean, the three channels for a color, the bytes
\* for a text.
BuilderOf(call) ==
    LET cmd == call[1]
        seq == call[2][1]
    IN  CASE cmd = CmdBrightness -> Builder_brightness(seq, call[3][1])
          [] cmd = CmdMainswitchState ->
                Builder_mainswirch_state(seq, call[3] = <<1>>)
          [] cmd = CmdAnimationAdd ->
                Builder_animation_add(seq, call[3][1], call[4])
          [] cmd = CmdSceneSetactive -> Builder_scene_active(seq, call[3][1])
          [] cmd = CmdSceneAdd ->
                Builder_scene_add(seq, call[3][1], call[4][1], call[5],
                                  call[6], call[7][1], call[8])
          [] cmd = CmdSceneRm -> Builder_scene_remove(seq, call[3][1])
          [] cmd = CmdSceneName -> Builder_scene_name(seq, call[3][1], call[4])
          [] cmd = CmdSceneConfig ->
                Builder_scene_config(seq, call[3][1], call[4])
          [] cmd = CmdSceneColor ->
                Builder_scene_color(seq, call[3][1], call[4])
          [] OTHER -> Builder_scene_velocity(seq, call[3][1], call[4][1])

\* ------------------------------------------------------------ the requests
\* Scene IDs sent on the wire: 0 (never assigned) and the assignable IDs.
WireIds == 0..MaxScenes
\* Animation IDs sent on the wire: the catalogue's and one beyond it.
WireAnimIds == 0..Len(Catalogue)
WireColor1 == <<255, 128, 0>>
WireColor2 == <<0, 0, 255>>
WireVelocity1 == PackI(1000)
WireVelocity2 == PackI(1001)
WireVelocity3 == PackI(500)
\* int(-0.5 * Unit), 0.42, 1.7: brightness values passed to setBrightness
ApiBrightness == {0 - (Unit \div 2), (Unit * 42) \div 100, (Unit * 17) \div 10}

BrightnessRequests ==
    {<<CmdBrightness, <<b>> >> : b \in {0, 255}}
    \cup {<<CmdBrightness>>,
          <<CmdBrightness, <<0, 128>> >>,
          <<CmdBrightness, <<0, 0, 0, 250>> >>,
          <<CmdBrightness, <<255>>, <<0>> >>}

MainswitchRequests ==
    {<<CmdMainswitchState, <<b>> >> : b \in {0, 1, 2, 255}}
    \cup {<<CmdMainswitchState>>,
          <<CmdMainswitchState, <<0, 1>> >>,
          <<CmdMainswitchState, <<1>>, <<0>> >>,
          <<CmdMainswitchToggle>>,
          <<CmdMainswitchToggle, <<1>> >>}

SceneAddRequests ==
    {<<CmdSceneAdd, PackI(a), TextA, WireColor1, WireVelocity1>> :
        a \in WireAnimIds}
    \cup {<<CmdSceneAdd, PackI(a), TextA, WireColor1, WireVelocity1, TextBad>> :
        a \in {0, 2}}
    \cup {<<CmdSceneAdd, PackI(0), NotUtf8, WireColor1, WireVelocity1>>,
          <<CmdSceneAdd, PackI(0), TextA, WireColor1, WireVelocity1, NotUtf8>>,
          <<CmdSceneAdd, PackI(0), TextA, WireColor1>>,
          <<CmdSceneAdd, PackI(0), TextA, WireColor1, WireVelocity1, TextEmpty,
            TextEmpty>>,
          <<CmdSceneAdd, <<0, 0, 0>>, TextA, WireColor1, WireVelocity1>>,
          <<CmdSceneAdd, PackI(0), TextA, <<255, 128>>, WireVelocity1>>,
          <<CmdSceneAdd, PackI(0), TextA, WireColor1, <<0, 3, 232>> >>}

\* The requests that carry a scene ID and one more field (or none).
EditRequests(cmd, fields, badFields) ==
    {<<cmd, PackI(id), f>> : id \in WireIds, f \in fields}
    \cup {<<cmd, PackI(1), f>> : f \in badFields}
    \cup {<<cmd, PackI(1)>>, <<cmd, <<0, 0, 1>>, CHOOSE f \in fields : TRUE>>}
    \cup {<<cmd, PackI(1), f, TextEmpty>> : f \in fields}

IdRequests(cmd) ==
    {<<cmd, PackI(id)>> : id \in WireIds}
    \cup {<<cmd>>, <<cmd, <<0, 0, 1>> >>, <<cmd, PackI(1), TextEmpty>>}

Requests ==
    BrightnessRequests \cup MainswitchRequests \cup SceneAddRequests
    \cup EditRequests(CmdSceneName, {TextB}, {NotUtf8})
    \cup EditRequests(CmdSceneConfig, {TextBad}, {NotUtf8})
    \cup EditRequests(CmdSceneColor, {WireColor2}, {<<0, 255>>})
    \cup EditRequests(CmdSceneVelocity, {WireVelocity2, WireVelocity3},
                     {<<3, 233>>})
    \cup IdRequests(CmdSceneRm)
    \cup IdRequests(CmdSceneSetactive)
    \cup {<<>>, <<CmdBogus>>, <<CmdBogus, <<1>> >>}

\* Peer identities the ROUTER socket puts in front of a snapshot request.
Identities == {<<7>>, <<9>>}
SnapshotRequests == {<<id, TextEmpty>> : id \in Identities}

\* The frame lists handed to MessageParser.mainswirch_state.
ParserInputs ==
    {<<CmdMainswitchState, <<b>> >> : b \in {0, 1, 2, 254, 255}}
    \cup {<<CmdMainswitchState>>,
          <<CmdMainswitchState, <<0, 1>> >>,
          <<CmdMainswitchState, TextEmpty>>,
          <<CmdMainswitchState, <<1>>, <<0>> >>,
          <<NotUtf8, <<1>> >>}

\* The calls of the message builders: sequence numbers 1 and 0x01020304,
\* scene and animation IDs 7 and 0, the colors (1.0, 0.5, 0.0) and black, the
\* velocities 1.0, 1.001 and 0.5, the brightness values 1.0 and 0.0.
BuilderSeqs == {<<1>>, <<16909060>>}
BuilderIds == {<<7>>, <<0>>}
BuilderColors == {<<Unit, Unit \div 2, 0>>, <<0, 0, 0>>}
BuilderVelocities == {<<VUnit>>, <<MilliToV(1001)>>, <<VUnit \div 2>>}
BuilderCalls ==
    {<<CmdBrightness, q, <<b>> >> : q \in BuilderSeqs, b \in {Unit, 0}}
    \cup {<<CmdMainswitchState, q, b>> :
             q \in BuilderSeqs, b \in {<<0>>, <<1>>}}
    \cup {<<CmdAnimationAdd, q, <<0>>, AnimName(AnimNova)>> : q \in BuilderSeqs}
    \cup {<<cmd, q, id>> :
             cmd \in {CmdSceneSetactive, CmdSceneRm}, q \in BuilderSeqs,
             id \in BuilderIds}
    \cup {<<CmdSceneAdd, <<1>>, <<7>>, <<0>>, TextA, c, v, TextB>> :
             c \in BuilderColors, v \in BuilderVelocities}
    \cup {<<cmd, q, <<7>>, x>> :
             cmd \in {CmdSceneName, CmdSceneConfig}, q \in BuilderSeqs,
             x \in {TextA, TextEmpty}}
    \cup {<<CmdSceneColor, q, <<7>>, c>> :
             q \in BuilderSeqs, c \in BuilderColors}
    \cup {<<CmdSceneVelocity, q, <<7>>, v>> :
             q \in BuilderSeqs, v \in BuilderVelocities}

\* The calls of the parsers, held as the parser's command followed by the
\* frames handed to it: the request of the command, the request with one and
\* with two frames appended, and the request under a command name cut short
\* or extended.
ParserCommands ==
    {CmdMainswitchState, CmdSceneAdd, CmdSceneRm, CmdSceneName, CmdSceneConfig,
     CmdSceneColor, CmdSceneVelocity, CmdSceneSetactive}
RequestOf(cmd) ==
    CASE cmd = CmdMainswitchState -> <<cmd, <<1>> >>
      [] cmd = CmdSceneAdd ->
            <<cmd, PackI(0), TextA, WireColor1, WireVelocity1, TextB>>
      [] cmd \in {CmdSceneName, CmdSceneConfig} -> <<cmd, PackI(1), TextA>>
      [] cmd = CmdSceneColor -> <<cmd, PackI(1), WireColor1>>
      [] cmd = CmdSceneVelocity -> <<cmd, PackI(1), WireVelocity1>>
      [] OTHER -> <<cmd, PackI(1)>>
Misnamed(cmd) == {SubSeq(cmd, 1, Len(cmd) - 1), cmd \o <<70, 79, 79>>}
ParserCalls ==
    UNION {{<<cmd>> \o RequestOf(cmd),
            <<cmd>> \o RequestOf(cmd) \o <<TextA>>,
            <<cmd>> \o RequestOf(cmd) \o <<TextA, <<0>> >>}
           \cup {<<cmd>> \o [RequestOf(cmd) EXCEPT ![1] = n] :
                    n \in Misnamed(cmd)} : cmd \in ParserCommands}
    \cup {<<CmdMainswitchState, n, <<b>> >> :
             n \in Misnamed(CmdMainswitchState), b \in {0, 2, 255}}

\* -------------------------------------------------------------- the events
Event(kind, frames) == [kind |-> kind, frames |-> frames]
NoEvent == Event("idle", <<>>)

\* The frames the live animation may render next.
Choices ==
    IF activeAnimation # <<>> /\ activeAnimation[1].cls # AnimStatic
    THEN RenderChoices ELSE {Black}

\* Whether _buf holds a frame of the live instance, after the calls e: a
\* new instance has rendered nothing, a finished one is not live.
RECURSIVE RenderedByLive(_, _)
RenderedByLive(e, live) ==
    IF e = <<>> THEN live
    ELSE RenderedByLive(Tail(e),
             CASE Head(e).call \in {"new", "finish"} -> FALSE
               [] Head(e).call = "nextFrame" -> TRUE
               [] OTHER -> live)

\* The state after an event that ended in the record r.
Commit(r) ==
    /\ animationClasses' = r.animationClasses
    /\ activeSceneId' = r.activeSceneId
    /\ activeAnimation' = r.activeAnimation
    /\ scenes' = r.scenes
    /\ brightness' = r.brightness
    /\ sceneIdCtr' = r.sceneIdCtr
    /\ mainswitch' = r.mainswitch
    /\ targetFps' = r.targetFps
    /\ buf' = r.buf
    /\ callerRunning' = r.callerRunning
    /\ callbackFps' = r.callbackFps
    /\ pendingRender' = r.pendingRender
    /\ seqNr' = r.seqNr
    /\ pub' = r.pub
    /\ ext' = r.ext
    /\ bufLive' = RenderedByLive(r.ext, bufLive)
    /\ published' = published \o [i \in 1..Len(r.pub) |-> Unpack(r.pub[i][2])]
    /\ accepted' = IF ~r.ret.raised /\ r.ret.ok THEN accepted + 1 ELSE accepted

\* GlinApp.__init__ and GlinAppZmqPublisher.__init__
Init ==
    /\ animationClasses = <<>>
    /\ activeSceneId = NoneId
    /\ activeAnimation = <<>>
    /\ scenes = <<>>
    /\ brightness = Unit
    /\ sceneIdCtr = 0
    /\ mainswitch = TRUE
    /\ targetFps = 0
    /\ buf = <<>>
    /\ callerRunning = FALSE
    /\ callbackFps = 30
    /\ pendingRender = 0
    /\ seqNr = 0
    /\ awaitingReply = FALSE
    /\ pub = <<>>
    /\ ext = <<>>
    /\ reply = NoReply
    /\ lastReq = NoEvent
    /\ running = FALSE
    /\ published = <<>>
    /\ accepted = 0
    /\ snap = <<>>
    /\ parsed = NoParse
    /\ built = <<>>
    /\ bufLive = FALSE
    /\ novas = <<>>
    /\ novaWrites = <<>>
    /\ libIn = <<>>
    /\ libOut = <<>>

\* The server is being set up and no codec call is under way.
Booting == ~running /\ lastReq = NoEvent
\* The IOLoop waits for the next event: the previous one is over.
Polling == running /\ lastReq = NoEvent
\* No deferred callback is queued.  (Callbacks added during a handler run
\* before the loop looks for the next socket or timer event.)
Idle == Polling /\ pendingRender = 0

\* boot(): the bootstrap registers the next animation class it discovered.
RegisterAnimation ==
    /\ Booting
    /\ Len(animationClasses) < Len(Catalogue)
    /\ Commit(registerAnimation(Cur, Catalogue[Len(animationClasses) + 1]))
    /\ UNCHANGED <<reply, lastReq, running, awaitingReply, snap, parsed, built>>
    /\ UNCHANGED libVars

\* execute(): the IOLoop starts.
Execute ==
    /\ Booting
    /\ running' = TRUE
    /\ UNCHANGED <<appVars, bufLive, seqNr, awaitingReply, pub, ext, reply, lastReq,
                   published, accepted, snap, parsed, built>>
    /\ UNCHANGED libVars

\* The collector receives the request msg and handle_collect runs.
Collect(msg) ==
    /\ Idle
    /\ ~awaitingReply
    /\ seqNr < MaxSeq
    /\ (Len(msg) > 0 /\ msg[1] = CmdSceneAdd) => sceneIdCtr < MaxScenes
    /\ \E choice \in Choices :
          LET r == handleCollect(Cur, msg, choice)
          IN  /\ Commit(r)
              /\ reply' = ReplyOf(r.ret)
              /\ awaitingReply' = r.ret.raised
    /\ lastReq' = Event("collect", msg)
    /\ UNCHANGED <<running, snap, parsed, built>>
    /\ UNCHANGED libVars

\* setBrightness called with a value no request can carry.
ApiSetBrightness(b) ==
    /\ Idle
    /\ seqNr < MaxSeq
    /\ LET r == setBrightness(Cur, b)
       IN  /\ Commit(r)
           /\ reply' = [ReplyOf(r.ret) EXCEPT !.status = "returned",
                                               !.frames = <<>>]
    /\ lastReq' = Event("setBrightness", <<b>>)
    /\ UNCHANGED <<running, awaitingReply, snap, parsed, built>>
    /\ UNCHANGED libVars

\* The IOLoop runs the _doNextFrame callback an activation queued.
RunDeferred ==
    /\ Polling
    /\ pendingRender > 0
    /\ \E choice \in Choices :
          Commit(doNextFrame([Cur EXCEPT !.pendingRender = @ - 1], choice))
    /\ reply' = NoReply
    /\ lastReq' = Event("deferred", <<>>)
    /\ UNCHANGED <<running, awaitingReply, snap, parsed, built>>
    /\ UNCHANGED libVars

\* The PeriodicCallback fires: _on_nextFrame.
Tick ==
    /\ Idle
    /\ callerRunning
    /\ \E choice \in Choices : Commit(doNextFrame(Cur, choice))
    /\ reply' = NoReply
    /\ lastReq' = Event("tick", <<>>)
    /\ UNCHANGED <<running, awaitingReply, snap, parsed, built>>
    /\ UNCHANGED libVars

\* The ROUTER socket receives a snapshot request and handle_snapshot runs.
Snapshot(msg) ==
    /\ Idle
    /\ LET r == handle_snapshot(Cur, msg)
       IN  /\ Commit(r)
           /\ snap' = r.snap
    /\ reply' = NoReply
    /\ lastReq' = Event("snapshot", msg)
    /\ UNCHANGED <<running, awaitingReply, parsed, built>>
    /\ UNCHANGED libVars

\* A client of glin.zmq.messages parses the frames of a message.  The codec
\* shares no state with the server: it is exercised while the server is set
\* up.
Parse(frames) ==
    /\ Booting
    /\ parsed' = Parser_mainswirch_state(frames)
    /\ lastReq' = Event("parse", frames)
    /\ UNCHANGED <<appVars, bufLive, seqNr, awaitingReply, pub, ext, reply, running,
                   published, accepted, snap, built>>
    /\ UNCHANGED libVars

\* A client of glin.zmq.messages hands frames to the parser of a command.
ParseWith(call) ==
    /\ Booting
    /\ parsed' = ParserOf(call[1], Tail(call))
    /\ lastReq' = Event("parser", call)
    /\ UNCHANGED <<appVars, bufLive, seqNr, awaitingReply, pub, ext, reply,
                   running, published, accepted, snap, built>>
    /\ UNCHANGED libVars

\* A client of glin.zmq.messages builds a message and hands the frames to the
\* parser of the same command.
Codec(call) ==
    /\ Booting
    /\ built' = BuilderOf(call)
    /\ parsed' = ParserOf(call[1], BuilderOf(call))
    /\ lastReq' = Event("codec", call)
    /\ UNCHANGED <<appVars, bufLive, seqNr, awaitingReply, pub, ext, reply, running,
                   published, accepted, snap>>
    /\ UNCHANGED libVars

\* The handler has returned to the IOLoop, which goes on to wait for the
\* next event (or the codec call has returned to the client): what the last
\* event sent and called is no longer current.
Poll ==
    /\ lastReq # NoEvent
    /\ pub' = <<>>
    /\ ext' = <<>>
    /\ reply' = NoReply
    /\ lastReq' = NoEvent
    /\ snap' = <<>>
    /\ parsed' = NoParse
    /\ built' = <<>>
    /\ UNCHANGED <<appVars, bufLive, seqNr, awaitingReply, running, published, accepted>>
    /\ UNCHANGED libVars
Next ==
    \/ RegisterAnimation
    \/ Execute
    \/ \E msg \in Requests : Collect(msg)
    \/ \E b \in ApiBrightness : ApiSetBrightness(b)
    \/ \E msg \in SnapshotRequests : Snapshot(msg)
    \/ \E frames \in ParserInputs : Parse(frames)
    \/ \E call \in ParserCalls : ParseWith(call)
    \/ \E call \in BuilderCalls : Codec(call)
    \/ RunDeferred
    \/ Tick
    \/ Poll

Spec == Init /\ [][Next]_vars

\* ================================================================ properties
\* The request layouts of the protocol table: the fields after the command.
KnownCommands ==
    {CmdBrightness, CmdMainswitchState, CmdMainswitchToggle, CmdSceneAdd,
     CmdSceneRm, CmdSceneName, CmdSceneConfig, CmdSceneColor,
     CmdSceneVelocity, CmdSceneSetactive}
RequestLayout(cmd) ==
    CASE cmd = CmdBrightness -> <<"u8">>
      [] cmd = CmdMainswitchState -> <<"bool">>
      [] cmd = CmdMainswitchToggle -> <<>>
      [] cmd = CmdSceneAdd -> <<"u32", "str", "rgb", "u32", "str">>
      [] cmd = CmdSceneRm -> <<"u32">>
      [] cmd = CmdSceneName -> <<"u32", "str">>
      [] cmd = CmdSceneConfig -> <<"u32", "str">>
      [] cmd = CmdSceneColor -> <<"u32", "rgb">>
      [] cmd = CmdSceneVelocity -> <<"u32", "u32">>
      [] OTHER -> <<"u32">>
FieldOk(kind, f) ==
    CASE kind = "u8" -> Len(f) = 1
      [] kind = "bool" -> Len(f) = 1
      [] kind = "u32" -> Len(f) = 4
      [] kind = "rgb" -> Len(f) = 3
      [] OTHER -> Utf8Valid(f)
\* msg has a known command, the frame count of its layout (scene.add also in
\* the legacy form without the config frame) and fields of the right shape.
WellFormed(msg) ==
    /\ Len(msg) >= 1
    /\ msg[1] \in KnownCommands
    /\ LET layout == RequestLayout(msg[1])
       IN  /\ \/ Len(msg) = Len(layout) + 1
              \/ msg[1] = CmdSceneAdd /\ Len(msg) = Len(layout)
           /\ \A i \in 2..Len(msg) : FieldOk(layout[i - 1], msg[i])
Malformed(msg) == ~WellFormed(msg)

\* e is the well-formed request cmd.
IsRequest(e, cmd) ==
    e.kind = "collect" /\ WellFormed(e.frames) /\ e.frames[1] = cmd
\* e is an operation of the orchestrator reached by a request or a call.
IsOperation(e) ==
    \/ e.kind = "collect" /\ WellFormed(e.frames)
    \/ e.kind = "setBrightness"
\* the reply is the rejection (false, 0, reason)
Rejected(r) ==
    r.status = "sent" /\ ~r.success /\ r.seqNr = 0 /\ r.comment # ""
OneTo(n) == [k \in 1..n |-> k]

\* ---- C1 ----
\* C1 as stated: when N commands were accepted, the sequence numbers
\* published so far are exactly 1..N.
C1_Original == published = OneTo(accepted)

C1_Step ==
    /\ published' = OneTo(Len(published'))
    /\ accepted' <= Len(published')
    /\ accepted' = accepted + 1 =>
          /\ reply'.seqNr = Len(published) + 1
          /\ Len(published') - Len(published) =
                IF IsRequest(lastReq', CmdSceneAdd) /\ activeSceneId = NoneId
                THEN 2 ELSE 1
          /\ Len(pub') = 2 => pub'[2][1] = CmdSceneSetactive
\* C1 amended: the sequence numbers published are exactly 1..M in the order
\* of publication, without gaps or repeats, with M at least the number N of
\* accepted commands; every accepted command publishes exactly one
\* broadcast, which carries the sequence number the command returns, except
\* an add-scene accepted while no active scene ID is set, which publishes a
\* second one (scene.setactive for the new scene) right after it.
C1_Amended == [][C1_Step]_vars
\* a second scene was added after the auto-activated first one
C1_Witness ==
    /\ IsRequest(lastReq, CmdSceneAdd)
    /\ reply.success
    /\ accepted >= 2
    /\ Len(published) > accepted
    /\ Len(pub) = 1

\* ---- C2 ----
\* C2: the sequence counter equals the number of messages broadcast so far,
\* the k-th message broadcast carries the 8-byte sequence number k, and the
\* messages of the last event carry the last numbers in order.
C2_SequenceCounter ==
    /\ seqNr = Len(published)
    /\ published = OneTo(Len(published))
    /\ \A i \in 1..Len(pub) :
          /\ Len(pub[i][2]) = 8
          /\ Unpack(pub[i][2]) = seqNr - Len(pub) + i
\* three message types were interleaved
C2_Witness ==
    /\ published = <<1, 2, 3, 4>>
    /\ Len(pub) = 1
    /\ pub[1][1] = CmdBrightness
    /\ DOMAIN scenes # {}
    /\ ~mainswitch

\* ---- C3 ----
C3_Step ==
    /\ (IsRequest(lastReq', CmdSceneRm)
        /\ Unpack(lastReq'.frames[2]) = activeSceneId) =>
          /\ Rejected(reply')
          /\ pub' = <<>>
          /\ seqNr' = seqNr
          /\ scenes' = scenes
          /\ activeSceneId' = activeSceneId
    /\ (activeSceneId \in DOMAIN scenes
        /\ ~(IsRequest(lastReq', CmdSceneSetactive) /\ reply'.success)) =>
          /\ activeSceneId' = activeSceneId
          /\ activeSceneId' \in DOMAIN scenes'
\* C3: a remove-scene request naming active_scene_id is rejected with
\* (false, 0, reason), broadcasts nothing and leaves scenes and
\* active_scene_id unchanged; while active_scene_id names an existing scene,
\* it keeps naming an existing scene in every step that is no accepted
\* set-active.
C3_ActiveSceneGuard == [][C3_Step]_vars
\* the removal of the active scene was refused while another scene exists
C3_Witness ==
    /\ IsRequest(lastReq, CmdSceneRm)
    /\ Unpack(lastReq.frames[2]) = activeSceneId
    /\ activeSceneId \in DOMAIN scenes
    /\ Cardinality(DOMAIN scenes) = 2
    /\ Rejected(reply)

\* ---- C4 ----
\* the request of this step is an accepted add-scene
AddAccepted == IsRequest(lastReq', CmdSceneAdd) /\ reply'.success
C4_Step ==
    /\ AddAccepted =>
          /\ sceneIdCtr' \in DOMAIN scenes'
          /\ activeSceneId' =
                IF activeSceneId = NoneId THEN sceneIdCtr' ELSE activeSceneId
    /\ activeSceneId = NoneId => DOMAIN scenes = {}
SwitchValue(e) == e.frames[2] = <<1>>
IsSwitchRequest(e) ==
    IsRequest(e, CmdMainswitchState) /\ e.frames[2] \in {<<0>>, <<1>>}
C5_Step ==
    IsSwitchRequest(lastReq') =>
        IF SwitchValue(lastReq') = mainswitch
        THEN /\ Rejected(reply')
             /\ pub' = <<>>
             /\ UNCHANGED <<appVars, seqNr>>
        ELSE /\ reply'.status = "sent"
             /\ reply'.success
             /\ reply'.seqNr > 0
             /\ reply'.seqNr = seqNr'
             /\ reply'.comment = "OK"
             /\ mainswitch' = SwitchValue(lastReq')
             /\ Len(pub') = 1
             /\ pub'[1][1] = CmdMainswitchState
\* C5: set-mainswitch with the current state returns (false, 0, message),
\* broadcasts nothing and changes nothing; with the opposite state it
\* returns (true, seq > 0, "OK"), flips the state and broadcasts exactly one
\* mainswitch.state message; the switch is on until the first broadcast.
C5_MainSwitchIdempotence == [](seqNr = 0 => mainswitch) /\ [][C5_Step]_vars
\* the switch was turned off while an animation was live
C5_Witness ==
    /\ IsSwitchRequest(lastReq)
    /\ reply.success
    /\ ~mainswitch
    /\ \E i \in 1..Len(ext) : ext[i].call = "finish"
\* set-mainswitch with the current state was refused
C5_WitnessRejected ==
    /\ IsSwitchRequest(lastReq)
    /\ SwitchValue(lastReq) = mainswitch
    /\ Rejected(reply)

\* ---- C6 ----
\* C6: every operation of the orchestrator that a well-formed request or a
\* call reaches returns its three-part result, and the request is replied to.
C6_NoOperationRaises ==
    IsOperation(lastReq) => reply.status \in {"sent", "returned"}

\* ---- C7 ----
C7_Step ==
    (lastReq'.kind = "collect" /\ Malformed(lastReq'.frames)) =>
        /\ Rejected(reply')
        /\ pub' = <<>>
        /\ UNCHANGED <<appVars, seqNr>>
\* C7: a request that is malformed (wrong frame count, fixed-width field of
\* the wrong length, invalid UTF-8, unknown command, no frame) is replied to
\* with (false, 0, reason), broadcasts nothing and changes no state.
C7_MalformedRejected == [][C7_Step]_vars

\* ---- C8 ----
\* The request msg is one the orchestrator refuses in the current state.
RejectCase(msg) ==
    LET cmd == msg[1]
        id == Unpack(msg[2])
    IN  CASE cmd = CmdSceneAdd ->
                \/ id >= Len(animationClasses)
                \/ ~CheckConfig(animationClasses[id + 1],
                                IF Len(msg) = 6 THEN msg[6] ELSE TextEmpty)
          [] cmd = CmdSceneRm -> id = activeSceneId \/ id \notin DOMAIN scenes
          [] cmd \in {CmdSceneName, CmdSceneConfig, CmdSceneColor,
                      CmdSceneVelocity} -> id \notin DOMAIN scenes
          [] cmd = CmdSceneSetactive -> id = activeSceneId
          [] cmd = CmdMainswitchState -> (msg[2] # <<0>>) = mainswitch
          [] OTHER -> FALSE
C8_Step ==
    (lastReq'.kind = "collect" /\ WellFormed(lastReq'.frames)
     /\ RejectCase(lastReq'.frames)) =>
        /\ Rejected(reply')
        /\ pub' = <<>>
        /\ seqNr' = seqNr
        /\ UNCHANGED <<scenes, sceneIdCtr, activeSceneId, activeAnimation,
                       mainswitch, brightness>>
BrightnessArg(e) ==
    IF e.kind = "setBrightness" THEN e.frames[1]
    ELSE ByteToUnit(e.frames[2][1])
IsSetBrightness(e) == e.kind = "setBrightness" \/ IsRequest(e, CmdBrightness)
\* C9: set-brightness with a value v succeeds, stores min(1, max(0, v)) and
\* broadcasts exactly one brightness message; the stored brightness is in
\* [0, 1] in every state.
C9_BrightnessClamp ==
    /\ 0 <= brightness /\ brightness <= Unit
    /\ IsSetBrightness(lastReq) =>
          LET v == BrightnessArg(lastReq)
          IN  /\ reply.success
              /\ reply.comment = "OK"
              /\ brightness = IF v < 0 THEN 0 ELSE IF v > Unit THEN Unit ELSE v
              /\ Len(pub) = 1
              /\ pub[1][1] = CmdBrightness
\* -0.5 was stored as 0
C9_Witness ==
    /\ lastReq.kind = "setBrightness"
    /\ lastReq.frames[1] < 0
    /\ brightness = 0
    /\ reply.success

\* ---- C10 ----
\* C10: a brightness request whose payload frame has 4 bytes is answered
\* with a success reply (first reply frame not 0x00).
C10_FourByteBrightness ==
    (lastReq.kind = "collect" /\ Len(lastReq.frames) = 2
     /\ lastReq.frames[1] = CmdBrightness /\ Len(lastReq.frames[2]) = 4) =>
        (reply.status = "sent" /\ reply.frames[1] # <<0>>)

C11_WitnessCollector ==
    /\ lastReq = Event("collect", <<CmdMainswitchState, <<255>> >>)
    /\ reply.success
    /\ mainswitch
    /\ Len(pub) = 1
    /\ pub[1][3] = <<1>>

\* ---- C12 ----
\* C12: the reply to every request the collector receives has exactly three
\* frames: the success flag in 1 byte, the sequence number in 8 bytes
\* big-endian (0 when nothing was broadcast), and the message text.
C12_ReplyFrames ==
    lastReq.kind = "collect" =>
        /\ reply.status = "sent"
        /\ Len(reply.frames) = 3
        /\ reply.frames[1] = (IF reply.success THEN <<1>> ELSE <<0>>)
        /\ Len(reply.frames[2]) = 8
        /\ Unpack(reply.frames[2]) = reply.seqNr
        /\ reply.frames[3] = reply.comment
        /\ pub = <<>> => reply.seqNr = 0

\* ---- C13 ----
\* the scene ID a scene.add message of a snapshot names
SnapSceneId(m) == Unpack(m[4])
\* C13: the response to a snapshot request is, in this order, one
\* mainswitch.state message with the switch state, one brightness message
\* with the brightness, one animation.add message per registered animation
\* in registration order (IDs 0..A-1), one scene.add message per existing
\* scene with the scene's fields, and one scene.setactive message with the
\* active scene ID (0 when none); every message is addressed to the peer
\* that asked.
C13_SnapshotComplete ==
    lastReq.kind = "snapshot" =>
        LET A == Len(animationClasses)
            S == Cardinality(DOMAIN scenes)
        IN  /\ Len(snap) = 2 + A + S + 1
            /\ \A i \in 1..Len(snap) : snap[i][1] = lastReq.frames[1]
            /\ Len(snap[1]) = 4
            /\ snap[1][2] = CmdMainswitchState
            /\ snap[1][4] = (IF mainswitch THEN <<1>> ELSE <<0>>)
            /\ Len(snap[2]) = 4
            /\ snap[2][2] = CmdBrightness
            /\ snap[2][4] = <<(brightness * 255) \div Unit>>
            /\ \A i \in 1..A :
                  /\ Len(snap[2 + i]) = 5
                  /\ snap[2 + i][2] = CmdAnimationAdd
                  /\ Unpack(snap[2 + i][4]) = i - 1
                  /\ Len(snap[2 + i][4]) = 4
                  /\ snap[2 + i][5] = AnimName(animationClasses[i])
            /\ \A i \in (2 + A + 1)..(2 + A + S) :
                  /\ Len(snap[i]) = 9
                  /\ snap[i][2] = CmdSceneAdd
                  /\ SnapSceneId(snap[i]) \in DOMAIN scenes
                  /\ LET sc == scenes[SnapSceneId(snap[i])]
                     IN  /\ Unpack(snap[i][5]) = sc.animationId
                         /\ snap[i][6] = sc.name
                         /\ snap[i][7] = PackColor(sc.color)
                         /\ Unpack(snap[i][8]) = VToMilli(sc.velocity)
                         /\ snap[i][9] = sc.config
            /\ \A id \in DOMAIN scenes :
                  \E i \in (2 + A + 1)..(2 + A + S) : SnapSceneId(snap[i]) = id
            /\ Len(snap[Len(snap)]) = 4
            /\ snap[Len(snap)][2] = CmdSceneSetactive
            /\ Unpack(snap[Len(snap)][4]) =
                  (IF activeSceneId = NoneId THEN 0 ELSE activeSceneId)
\* a snapshot of three animations and two scenes, the second one active
C13_Witness ==
    /\ lastReq.kind = "snapshot"
    /\ Len(animationClasses) = 3
    /\ DOMAIN scenes = {1, 2}
    /\ activeSceneId = 2
    /\ Len(snap) = 8

\* ---- C14 ----
C14_Step ==
    lastReq'.kind = "snapshot" =>
        /\ UNCHANGED <<appVars, seqNr, published, accepted>>
        /\ pub' = <<>>
        /\ snap' # <<>>
        /\ \A i \in 1..Len(snap') :
              /\ Len(snap'[i][3]) = 8
              /\ Unpack(snap'[i][3]) = seqNr
        /\ seqNr = (IF published = <<>> THEN 0 ELSE published[Len(published)])
\* C14: serving a snapshot request leaves the sequence counter and the
\* application state unchanged and broadcasts nothing; every message of the
\* snapshot carries the counter's value, which is the sequence number of the
\* last broadcast published before (0 if none).
C14_SnapshotReadOnly == [][C14_Step]_vars
\* a snapshot was taken after three broadcasts
C14_Witness ==
    /\ lastReq.kind = "snapshot"
    /\ seqNr = 3
    /\ published = <<1, 2, 3>>
    /\ Unpack(snap[1][3]) = 3

\* ---- C15 ----
\* What an observer holds: per scene the animation ID, the name, the colour
\* as three bytes, the velocity in 1/1000 and the config; the active scene
\* ID, the main switch and the brightness as a byte.
MirrorScene(animationId, name, color, velocity, config) ==
    [animationId |-> animationId, name |-> name, color |-> color,
     velocity |-> velocity, config |-> config]
EmptyMirror ==
    [scenes |-> <<>>, active |-> NoneId, mainswitch |-> TRUE, brightness |-> 255]
\* The observer applies one message <<command, sequence number, fields...>>.
Apply(m, msg) ==
    LET cmd == msg[1]
        id == Unpack(msg[3])
    IN  CASE cmd = CmdBrightness -> [m EXCEPT !.brightness = msg[3][1]]
          [] cmd = CmdMainswitchState -> [m EXCEPT !.mainswitch = (msg[3] # <<0>>)]
          [] cmd = CmdSceneAdd ->
                [m EXCEPT !.scenes =
                    (id :> MirrorScene(Unpack(msg[4]), msg[5], msg[6],
                                       Unpack(msg[7]), msg[8]))
                    @@ [i \in (DOMAIN @) \ {id} |-> @[i]]]
          [] cmd = CmdSceneRm ->
                [m EXCEPT !.scenes = [i \in (DOMAIN @) \ {id} |-> @[i]]]
          [] cmd = CmdSceneName -> [m EXCEPT !.scenes[id].name = msg[4]]
          [] cmd = CmdSceneConfig -> [m EXCEPT !.scenes[id].config = msg[4]]
          [] cmd = CmdSceneColor -> [m EXCEPT !.scenes[id].color = msg[4]]
          [] cmd = CmdSceneVelocity ->
                [m EXCEPT !.scenes[id].velocity = Unpack(msg[4])]
          [] cmd = CmdSceneSetactive -> [m EXCEPT !.active = id]
          [] OTHER -> m
RECURSIVE ApplyAll(_, _)
ApplyAll(m, msgs) ==
    IF msgs = <<>> THEN m ELSE ApplyAll(Apply(m, Head(msgs)), Tail(msgs))
\* The messages of a snapshot without the identity frame.
SnapMessages(sn) == [i \in 1..Len(sn) |-> Tail(sn[i])]
\* The server's state as an observer holds it: values as the wire carries
\* them, the active scene ID as it is (none is none).
View ==
    [scenes |-> [id \in DOMAIN scenes |->
                    MirrorScene(scenes[id].animationId, scenes[id].name,
                                PackColor(scenes[id].color),
                                VToMilli(scenes[id].velocity),
                                scenes[id].config)],
     active |-> activeSceneId,
     mainswitch |-> mainswitch,
     brightness |-> UnitToByte(brightness)]
\* The same with the active scene ID as the wire carries it: 0 for none.
WireView ==
    [View EXCEPT !.active = IF activeSceneId = NoneId THEN 0 ELSE activeSceneId]
\* a map as a set of pairs, so that the empty dict has one shape
Pairs(f) == {<<k, f[k]>> : k \in DOMAIN f}
Same(m1, m2) ==
    /\ Pairs(m1.scenes) = Pairs(m2.scenes)
    /\ m1.active = m2.active
    /\ m1.mainswitch = m2.mainswitch
    /\ m1.brightness = m2.brightness

C15_Step ==
    /\ Same(ApplyAll(View, pub'), View')
    /\ Same(ApplyAll(WireView, pub'), WireView')
    /\ lastReq'.kind = "snapshot" =>
          Same(ApplyAll(EmptyMirror, SnapMessages(snap')), WireView')
C15_WitnessSnapshot ==
    /\ lastReq.kind = "snapshot"
    /\ activeSceneId = NoneId
    /\ running

\* ---- C16 ----
\* C16: a live animation instance is present only while the main switch is
\* on and active_scene_id names a scene of the scenes map.
C16_LiveAnimationGuard ==
    activeAnimation # <<>> =>
        /\ mainswitch
        /\ activeSceneId \in DOMAIN scenes
\* the second scene was made the active one and is live
C16_Witness ==
    /\ activeAnimation # <<>>
    /\ activeSceneId = 2
    /\ DOMAIN scenes = {1, 2}
    /\ IsRequest(lastReq, CmdSceneSetactive)

\* ---- C17 ----
C17_Step ==
    /\ sceneIdCtr' >= sceneIdCtr
    /\ IF AddAccepted
       THEN /\ sceneIdCtr' = sceneIdCtr + 1
            /\ sceneIdCtr' \notin DOMAIN scenes
            /\ DOMAIN scenes' = DOMAIN scenes \cup {sceneIdCtr'}
            /\ pub'[1][1] = CmdSceneAdd
            /\ Unpack(pub'[1][3]) = sceneIdCtr'
       ELSE /\ sceneIdCtr' = sceneIdCtr
            /\ DOMAIN scenes' \subseteq DOMAIN scenes
\* C17: the scene ID counter starts at 0; an accepted add-scene increments
\* it and gives the new scene the new value, so the IDs handed out are 1, 2,
\* 3, ... in this order, none twice, also after a removal; every other step,
\* a rejected add-scene included, leaves the counter as it is and adds no
\* scene; every existing scene's ID is between 1 and the counter.
C17_SceneIdsFresh ==
    /\ sceneIdCtr = 0
    /\ [](\A id \in DOMAIN scenes : 1 <= id /\ id <= sceneIdCtr)
    /\ [][C17_Step]_vars
\* scene 1 was removed and the next scene got the ID 2
C17_Witness ==
    /\ IsRequest(lastReq, CmdSceneAdd)
    /\ reply.success
    /\ sceneIdCtr = 2
    /\ DOMAIN scenes = {2}

\* ---- C18 ----
\* the calls that render a frame or hand one to the hardware backend
FrameCalls == {"nextFrame", "hw.send"}
C18_Step ==
    /\ (mainswitch /\ ~mainswitch') =>
          /\ ~callerRunning'
          /\ activeAnimation' = <<>>
          /\ IF activeAnimation # <<>>
             THEN ext' = <<Call("caller.stop", <<>>), Call("finish", <<>>),
                           Call("hw.switchOff", <<>>)>>
             ELSE ext' = <<Call("hw.switchOff", <<>>)>>
    /\ ~mainswitch' =>
          /\ \A i \in 1..Len(ext') : ext'[i].call \notin FrameCalls
          /\ ~callerRunning'
          /\ activeAnimation' = <<>>
    /\ (~mainswitch /\ ~mainswitch') => buf' = buf
\* C18: turning the main switch off stops the periodic scheduler, finishes
\* and clears the live animation and then calls the backend's switchOff;
\* while the switch is off no event (request, deferred callback, timer tick)
\* renders a frame or sends one to the hardware backend.
C18_MainSwitchGate == [][C18_Step]_vars
\* the brightness was set while the switch is off and a frame is kept
C18_Witness ==
    /\ ~mainswitch
    /\ buf # <<>>
    /\ IsRequest(lastReq, CmdBrightness)
    /\ reply.success
    /\ activeSceneId \in DOMAIN scenes

\* ---- C19 ----
C19_Step ==
    IsRequest(lastReq', CmdSceneSetactive) =>
        LET id == Unpack(lastReq'.frames[2])
            calls == {ext'[i].call : i \in 1..Len(ext')}
        IN  IF id = activeSceneId
            THEN /\ Rejected(reply')
                 /\ pub' = <<>>
                 /\ ext' = <<>>
                 /\ UNCHANGED <<appVars, seqNr>>
            ELSE /\ reply'.status = "sent"
                 /\ reply'.success
                 /\ reply'.seqNr = seqNr'
                 /\ pub' = << <<CmdSceneSetactive, PackQ(seqNr + 1), PackI(id)>> >>
                 /\ activeSceneId' = id
                 /\ IF activeAnimation # <<>>
                    THEN /\ Len(ext') >= 2
                         /\ ext'[1] = Call("caller.stop", <<>>)
                         /\ ext'[2] = Call("finish", <<>>)
                    ELSE "finish" \notin calls
                 /\ IF mainswitch /\ id \in DOMAIN scenes
                    THEN /\ activeAnimation' # <<>>
                         /\ activeAnimation'[1].cls =
                               animationClasses[scenes[id].animationId + 1]
                         /\ "new" \in calls
                         /\ callerRunning' = (targetFps' > 0)
                    ELSE /\ activeAnimation' = <<>>
                         /\ "new" \notin calls
                         /\ ~callerRunning'
                 /\ UNCHANGED <<scenes, sceneIdCtr, mainswitch, brightness>>
\* C19: set-active naming the current active_scene_id is rejected without
\* effect; any other ID is accepted: the live animation, if any, is finished
\* and the scheduler stopped, one scene.setactive message with the ID is
\* broadcast, active_scene_id becomes the ID, and a new animation is
\* activated if and only if the main switch is on and the ID names an
\* existing scene; otherwise no animation is live afterwards.
C19_SetActiveScene == [][C19_Step]_vars
\* an ID naming no scene was made active while an animation was live
C19_Witness ==
    /\ IsRequest(lastReq, CmdSceneSetactive)
    /\ reply.success
    /\ mainswitch
    /\ DOMAIN scenes # {}
    /\ activeSceneId \notin DOMAIN scenes
    /\ ext = <<Call("caller.stop", <<>>), Call("finish", <<>>)>>

\* ---- C20 ----
EditCommands == {CmdSceneName, CmdSceneConfig, CmdSceneColor, CmdSceneVelocity}
\* the scene sc with the field cmd names set to the value of the frame f
Edited(sc, cmd, f) ==
    CASE cmd = CmdSceneName -> [sc EXCEPT !.name = f]
      [] cmd = CmdSceneConfig -> [sc EXCEPT !.config = f]
      [] cmd = CmdSceneColor -> [sc EXCEPT !.color = parseColor(f)]
      [] OTHER -> [sc EXCEPT !.velocity = MilliToV(Unpack(f))]
C20_Step ==
    /\ \A id \in DOMAIN scenes \cap DOMAIN scenes' :
          scenes'[id].animationId = scenes[id].animationId
    /\ (lastReq'.kind = "collect" /\ WellFormed(lastReq'.frames)
        /\ lastReq'.frames[1] \in EditCommands
        /\ Unpack(lastReq'.frames[2]) \in DOMAIN scenes) =>
          LET cmd == lastReq'.frames[1]
              id == Unpack(lastReq'.frames[2])
          IN  /\ DOMAIN scenes' = DOMAIN scenes
              /\ scenes'[id] = Edited(scenes[id], cmd, lastReq'.frames[3])
              /\ \A j \in DOMAIN scenes \ {id} : scenes'[j] = scenes[j]
              /\ pub' = << <<cmd, PackQ(seqNr + 1), PackI(id),
                             lastReq'.frames[3]>> >>
              /\ UNCHANGED <<sceneIdCtr, activeSceneId, mainswitch, brightness>>
\* C20: rename / reconfigure / recolor / set-velocity of an existing scene
\* changes exactly the named field of exactly that scene and broadcasts
\* exactly one message of the matching type with the scene ID and the new
\* value; no step changes a scene's animation ID; the other scenes, the
\* scene ID counter, the active scene ID, the main switch and the
\* brightness stay as they are.
C20_EditsFieldLocal == [][C20_Step]_vars

\* ---- C21 ----
\* the positions of the calls named name in the call sequence e
CallIdx(e, name) == {i \in 1..Len(e) : e[i].call = name}
C21_Step ==
    CallIdx(ext', "new") # {} =>
       /\ activeAnimation' # <<>>
       /\ LET reported == AnimMaxFps(activeAnimation'[1].cls)
              fps == Max(0, Min(60, Min(reported, 100)))
          IN  /\ targetFps' = fps
              /\ \A i \in CallIdx(ext', "prepare") : ext'[i].arg = <<fps>>
              /\ CallIdx(ext', "nextFrame") = {}
              /\ pendingRender' = pendingRender + 1
              /\ IF fps = 0
                 THEN /\ ~callerRunning'
                      /\ CallIdx(ext', "caller.start") = {}
                 ELSE /\ callerRunning'
                      /\ callbackFps' = fps
                      /\ \E i \in CallIdx(ext', "caller.start") :
                            ext'[i].arg = <<fps>>
C21_WitnessStatic ==
    /\ CallIdx(ext, "new") # {}
    /\ activeAnimation # <<>>
    /\ activeAnimation[1].cls = AnimStatic
    /\ targetFps = 0
    /\ ~callerRunning
    /\ pendingRender = 1

\* ---- C22 ----
Abs(x) == IF x < 0 THEN 0 - x ELSE x
\* the kinds of the arguments each builder takes after the sequence number
ArgKinds(cmd) ==
    CASE cmd = CmdBrightness -> <<"unit">>
      [] cmd = CmdMainswitchState -> <<"bool">>
      [] cmd = CmdAnimationAdd -> <<"int", "text">>
      [] cmd = CmdSceneAdd ->
            <<"int", "int", "text", "color", "velocity", "text">>
      [] cmd \in {CmdSceneName, CmdSceneConfig} -> <<"int", "text">>
      [] cmd = CmdSceneColor -> <<"int", "color">>
      [] cmd = CmdSceneVelocity -> <<"int", "velocity">>
      [] OTHER -> <<"int">>
\* the parsed value val is the argument arg of a builder call: equal, or
\* within one step of the wire format for a float
MatchArg(kind, arg, val) ==
    CASE kind = "int" -> val = arg[1]
      [] kind = "bool" -> val = (arg = <<1>>)
      [] kind = "text" -> val = arg
      [] kind = "unit" -> Abs(val - arg[1]) <= Unit \div 255
      [] kind = "velocity" -> Abs(val - arg[1]) <= VUnit \div 1000
      [] OTHER -> \A ch \in 1..3 : Abs(val[ch] - arg[ch]) <= Unit \div 255
ReturnsArgs(call, outcome) ==
    /\ outcome.status = "ok"
    /\ Len(outcome.value) = Len(ArgKinds(call[1]))
    /\ \A i \in 1..Len(outcome.value) :
          MatchArg(ArgKinds(call[1])[i], call[i + 2], outcome.value[i])
\* C22: for every command of the protocol table and all valid arguments,
\* the command's parser applied to the frames its builder returns gives back
\* the arguments (floats within one step of the wire format).
C22_CodecRoundTrip ==
    lastReq.kind = "codec" => ReturnsArgs(lastReq.frames, parsed)

\* ---- C23 ----
\* the broadcast commands and the byte lengths of their payload frames
\* (AnyLen for a text frame)
AnyLen == 0 - 1
PayloadLens(cmd) ==
    CASE cmd \in {CmdBrightness, CmdMainswitchState} -> <<1>>
      [] cmd \in {CmdSceneSetactive, CmdSceneRm} -> <<4>>
      [] cmd \in {CmdAnimationAdd, CmdSceneName, CmdSceneConfig} ->
            <<4, AnyLen>>
      [] cmd = CmdSceneColor -> <<4, 3>>
      [] cmd = CmdSceneVelocity -> <<4, 4>>
      [] cmd = CmdSceneAdd -> <<4, 4, AnyLen, 3, 4, AnyLen>>
      [] OTHER -> <<>>
BroadcastCommands ==
    (KnownCommands \ {CmdMainswitchToggle}) \cup {CmdAnimationAdd}
\* m is the command name, the 8-byte big-endian number seq and the payload
Layout(m, seq) ==
    /\ Len(m) >= 2
    /\ m[1] \in BroadcastCommands
    /\ Utf8Valid(m[1])
    /\ Len(m[2]) = 8
    /\ \A k \in 1..8 : m[2][k] \in 0..255
    /\ Unpack(m[2]) = seq
    /\ Len(m) = 2 + Len(PayloadLens(m[1]))
    /\ \A k \in 1..Len(PayloadLens(m[1])) :
          PayloadLens(m[1])[k] \in {AnyLen, Len(m[k + 2])}
C23_WitnessBroadcast == pub # <<>>
C23_WitnessSnapshot == snap # <<>> /\ seqNr > 0

\* ---- C24 ----
\* C24: whenever the main switch is on and active_scene_id names a scene of
\* the scenes map, an animation instance is live, also when the ID was made
\* active before a scene was added under it.
C24_ActiveSceneRendered ==
    (mainswitch /\ activeSceneId \in DOMAIN scenes) => activeAnimation # <<>>

\* ---- C25 ----
\* The life of the animation instance: "none" (no instance), "created",
\* "prepared", "colored", "paced" (the calls of an activation so far),
\* "ready" (set up: setters and renders may follow), "broken" (a call out
\* of place).
LifeStep(phase, call) ==
    CASE call = "new" -> IF phase = "none" THEN "created" ELSE "broken"
      [] call = "prepare" ->
            IF phase = "created" THEN "prepared" ELSE "broken"
      [] call = "setColor" ->
            IF phase = "prepared" THEN "colored"
            ELSE IF phase = "ready" THEN "ready" ELSE "broken"
      [] call = "setVelocity" ->
            IF phase = "colored" THEN "paced"
            ELSE IF phase = "ready" THEN "ready" ELSE "broken"
      [] call = "setConfig" ->
            IF phase \in {"paced", "ready"} THEN "ready" ELSE "broken"
      [] call = "nextFrame" -> IF phase = "ready" THEN "ready" ELSE "broken"
      [] call = "finish" -> IF phase = "ready" THEN "none" ELSE "broken"
      [] OTHER -> phase
RECURSIVE Life(_, _)
Life(e, phase) ==
    IF e = <<>> THEN phase ELSE Life(Tail(e), LifeStep(phase, Head(e).call))
LivePhase(anim) == IF anim # <<>> THEN "ready" ELSE "none"
C25_Step ==
    /\ Len(activeAnimation') <= 1
    /\ Life(ext', LivePhase(activeAnimation)) = LivePhase(activeAnimation')
\* C25: at most one animation instance is live; an activation creates a
\* fresh instance and calls prepare, setColor, setVelocity, setConfig on it
\* in this order before any render; an instance gets finish() once before
\* the next instance is created or the reference is dropped, and no setter
\* or render is called on it afterwards.
C25_InstanceLifecycle == [][C25_Step]_vars
\* one event finished the live instance and set up the next
C25_Witness ==
    \E i, j \in 1..Len(ext) :
       /\ i < j
       /\ ext[i].call = "finish"
       /\ ext[j].call = "new"
       /\ activeAnimation # <<>>

\* ---- C26 ----
C26_Step ==
    /\ callerRunning' =>
          /\ activeAnimation' # <<>>
          /\ targetFps' > 0
          /\ callbackFps' = targetFps'
    /\ \A i \in CallIdx(ext', "finish") :
          i > 1 /\ ext'[i - 1] = Call("caller.stop", <<>>)
    /\ \A i \in CallIdx(ext', "new") :
          targetFps' > 0 =>
             /\ callerRunning'
             /\ \E j \in CallIdx(ext', "caller.start") :
                   j > i /\ ext'[j].arg = <<targetFps'>>
    /\ lastReq'.kind = "tick" =>
          /\ activeAnimation # <<>>
          /\ callbackFps = targetFps
          /\ CallIdx(ext', "nextFrame") # {}
\* C26: the periodic scheduler runs only while an animation instance is live
\* whose negotiated target_fps is above 0, with the period of that rate; a
\* deactivation stops it right before finish(), an activation at a rate
\* above 0 starts it with the new period; every periodic tick renders a
\* live instance at the interval of its own scene.
C26_SchedulerCancellation == [][C26_Step]_vars
\* a periodic tick of a scene activated after a faster one
C26_Witness ==
    /\ lastReq.kind = "tick"
    /\ callerRunning
    /\ targetFps = PluginMaxFps
    /\ callbackFps = PluginMaxFps
    /\ CallIdx(ext, "nextFrame") # {}

\* ---- C27 ----
C27_Step ==
    /\ CallIdx(ext', "new") # {} =>
          /\ pendingRender' = pendingRender + 1
          /\ CallIdx(ext', "nextFrame") = {}
    /\ pendingRender > 0 => lastReq'.kind \in {"idle", "deferred"}
    /\ lastReq'.kind = "deferred" =>
          /\ pendingRender' = pendingRender - 1
          /\ IF activeAnimation # <<>>
             THEN /\ Len(ext') = 2
                  /\ ext'[1].call = "nextFrame"
                  /\ ext'[2].call = "hw.send"
             ELSE ext' = <<>>
EditsLiveScene(e) ==
    /\ e.kind = "collect"
    /\ WellFormed(e.frames)
    /\ e.frames[1] \in {CmdSceneColor, CmdSceneVelocity}
    /\ Unpack(e.frames[2]) \in DOMAIN scenes
    /\ Unpack(e.frames[2]) = activeSceneId
    /\ activeAnimation # <<>>
C28_Step ==
    EditsLiveScene(lastReq') =>
       LET f == lastReq'.frames[3]
           recolor == lastReq'.frames[1] = CmdSceneColor
           pushed == IF recolor
                     THEN [activeAnimation[1] EXCEPT !.color = parseColor(f)]
                     ELSE [activeAnimation[1]
                             EXCEPT !.velocity = MilliToV(Unpack(f))]
       IN  /\ activeAnimation' = <<pushed>>
           /\ Len(ext') = 3
           /\ ext'[1] = IF recolor THEN Call("setColor", parseColor(f))
                        ELSE Call("setVelocity", <<MilliToV(Unpack(f))>>)
           /\ ext'[2].call = "nextFrame"
           /\ ext'[3] = Call("hw.send",
                             Scale(ClipFrame(ext'[2].arg), brightness))
           /\ buf' = <<ext'[2].arg>>
           /\ reply'.status = "sent"
           /\ reply'.success
           /\ UNCHANGED <<targetFps, callerRunning, callbackFps, pendingRender>>
\* C28: an accepted recolor or set-velocity of the active scene with a live
\* animation instance pushes the new value into that instance (no new
\* instance, no prepare, no finish) and renders one frame and sends it to
\* the hardware backend within the handling of the request, before the
\* reply; also for a single-shot scene with target_fps 0.
C28_LiveEditRenders == [][C28_Step]_vars
\* a single-shot scene was recolored and its frame rendered with the color
C28_Witness ==
    /\ IsRequest(lastReq, CmdSceneColor)
    /\ reply.success
    /\ targetFps = 0
    /\ Len(ext) = 3
    /\ ext[1].call = "setColor"
    /\ ext[2] = Call("nextFrame", parseColor(lastReq.frames[3]))
\* the velocity of a live periodic scene was set
C28_WitnessVelocity ==
    /\ IsRequest(lastReq, CmdSceneVelocity)
    /\ reply.success
    /\ callerRunning
    /\ Len(ext) = 3
    /\ ext[1].call = "setVelocity"

\* ---- C29 ----
C29_Step ==
    /\ (IsRequest(lastReq', CmdSceneConfig)
        /\ Unpack(lastReq'.frames[2]) \in DOMAIN scenes
        /\ Unpack(lastReq'.frames[2]) = activeSceneId) =>
          LET id == activeSceneId
              config == lastReq'.frames[3]
          IN  /\ reply'.status = "sent"
              /\ reply'.success
              /\ scenes'[id].config = config
              /\ pub' = << <<CmdSceneConfig, PackQ(seqNr + 1), PackI(id),
                             config>> >>
              /\ ext' = <<>>
              /\ UNCHANGED <<activeAnimation, activeSceneId, targetFps, buf,
                             callerRunning, callbackFps, pendingRender>>
    /\ \A i \in CallIdx(ext', "setConfig") :
          /\ CallIdx(ext', "new") # {}
          /\ activeSceneId' \in DOMAIN scenes'
          /\ ext'[i].arg = scenes'[activeSceneId'].config
\* C29: a reconfigure of the active scene is accepted, stored in the scene
\* and broadcast; it renders nothing, sends nothing to the hardware backend
\* and leaves the live animation instance as it is (no setConfig, no
\* re-activation); an animation is given a config only at an activation,
\* which hands over the config stored for the scene.
C29_ReconfigNoRender == [][C29_Step]_vars
\* the active scene was reconfigured: the live instance holds the old config
C29_Witness ==
    /\ IsRequest(lastReq, CmdSceneConfig)
    /\ reply.success
    /\ activeAnimation # <<>>
    /\ activeSceneId \in DOMAIN scenes
    /\ Unpack(lastReq.frames[2]) = activeSceneId
    /\ activeAnimation[1].config # scenes[activeSceneId].config

\* ---- C30 ----
\* the event e is an accepted set-brightness
SetsBrightness(e, r) ==
    /\ \/ e.kind = "setBrightness"
       \/ IsRequest(e, CmdBrightness)
    /\ r.success
\* the last rendered frame went to the hardware backend at the brightness b
Resent(e, b) ==
    buf # <<>> /\ e = <<Call("hw.send", Scale(ClipFrame(buf[1]), b))>>
C30_OriginalStep ==
    SetsBrightness(lastReq', reply') =>
       /\ (buf # <<>> /\ targetFps * 4 < 60) => Resent(ext', brightness')
       /\ targetFps * 4 >= 60 => ext' = <<>>
\* C30 as stated: on every set-brightness the last rendered frame, if there
\* is one, is re-sent at the new brightness when the negotiated rate is
\* below 15 fps, and nothing is sent when the rate is 15 fps or more.
C30_Original == [][C30_OriginalStep]_vars
C30_Step ==
    SetsBrightness(lastReq', reply') =>
       IF buf # <<>> /\ activeAnimation # <<>> /\ targetFps * 4 < 60
       THEN Resent(ext', brightness')
       ELSE ext' = <<>>
\* C30 amended: on every set-brightness the last rendered frame is re-sent
\* to the hardware backend at the new brightness if a frame has been
\* rendered, an animation instance is live and the negotiated rate is below
\* 15 fps; otherwise set-brightness sends nothing to the hardware backend.
C30_Amended == [][C30_Step]_vars
\* the frame of a slow periodic scene was re-sent at a new brightness
C30_Witness ==
    /\ SetsBrightness(lastReq, reply)
    /\ activeAnimation # <<>>
    /\ targetFps = PluginMaxFps
    /\ Resent(ext, brightness)
\* set-brightness with a frame of a single-shot scene kept while the main
\* switch is off: nothing is sent
C30_WitnessOff ==
    /\ SetsBrightness(lastReq, reply)
    /\ ~mainswitch
    /\ buf # <<>>
    /\ targetFps = 0
    /\ ext = <<>>

\* ---- C31 ----
C31_Step ==
    (SetsBrightness(lastReq', reply') /\ CallIdx(ext', "hw.send") # {}) =>
       /\ activeAnimation # <<>>
       /\ bufLive
       /\ Resent(ext', brightness')
C31_WitnessFinished ==
    /\ SetsBrightness(lastReq, reply)
    /\ mainswitch
    /\ buf # <<>>
    /\ ~bufLive
    /\ targetFps * 4 < 60
    /\ ext = <<>>

\* ---- C32 ----
\* every channel of the frame f lies in [0, 1]
InUnitRange(f) == \A ch \in 1..3 : f[ch] >= 0 /\ f[ch] <= Unit
C32_Step ==
    /\ \A i \in CallIdx(ext', "hw.send") :
          /\ InUnitRange(ext'[i].arg)
          /\ IF i > 1 /\ ext'[i - 1].call = "nextFrame"
             THEN /\ ext'[i].arg = Scale(ClipFrame(ext'[i - 1].arg), brightness')
                  /\ buf' = <<ext'[i - 1].arg>>
             ELSE /\ buf # <<>>
                  /\ ext'[i].arg = Scale(ClipFrame(buf[1]), brightness')
                  /\ buf' = buf
    /\ \A i \in CallIdx(ext', "nextFrame") :
          i < Len(ext') /\ ext'[i + 1].call = "hw.send"
\* C32: every frame handed to the hardware backend's send, by a render or by
\* the brightness repeat path, is per channel clip(rendered value, 0, 1)
\* times the brightness current at dispatch, hence within [0, 1]; the frame
\* kept for the repeat path is the rendered one, before brightness, so a
\* re-send at a new brightness is clip(frame) times that brightness alone.
C32_RenderPipeline == [][C32_Step]_vars
\* a frame rendered above 1 was re-sent at the brightness 0.42
C32_Witness ==
    /\ SetsBrightness(lastReq, reply)
    /\ brightness = (Unit * 42) \div 100
    /\ buf # <<>>
    /\ buf[1][1] > Unit
    /\ ext = <<Call("hw.send", Scale(<<Unit, Unit, 0>>, brightness))>>

\* ---- C33 ----
\* the number of frames the parser of cmd expects, the command included
FrameCount(cmd) == Len(RequestOf(cmd))
\* C33: every command parser raises the parse error for a frame list with
\* one or more frames after the last field it expects.
C33_TrailingFramesRejected ==
    (lastReq.kind = "parser"
     /\ Len(lastReq.frames) - 1 > FrameCount(lastReq.frames[1]))
       => parsed = ParseError

\* ---- C34 ----
\* C34: every command parser raises the parse error when frame 0 is not the
\* command name the parser expects, whatever the payload.
C34_CommandNameChecked ==
    (lastReq.kind = "parser" /\ Len(lastReq.frames) > 1
     /\ lastReq.frames[2] # lastReq.frames[1])
       => parsed = ParseError

\* ---- C35 ----
\* round(x * 255) for a float x in [0, 1] held in units of 1/Unit
RoundByte(x) == (x * 255 + Unit \div 2) \div Unit
\* round(v * 1000) for a float v >= 0 held in units of 1/VUnit
RoundMilli(v) == (v * 1000 + VUnit \div 2) \div VUnit
RoundColor(c) == <<RoundByte(c[1]), RoundByte(c[2]), RoundByte(c[3])>>
\* the message m (command, sequence number, payload) carries the floats of
\* the server's state rounded to nearest
RoundedState(m) ==
    CASE m[1] = CmdBrightness -> m[3] = <<RoundByte(brightness)>>
      [] m[1] = CmdSceneColor /\ Unpack(m[3]) \in DOMAIN scenes ->
            m[4] = RoundColor(scenes[Unpack(m[3])].color)
      [] m[1] = CmdSceneVelocity /\ Unpack(m[3]) \in DOMAIN scenes ->
            m[4] = PackI(RoundMilli(scenes[Unpack(m[3])].velocity))
      [] m[1] = CmdSceneAdd /\ Unpack(m[3]) \in DOMAIN scenes ->
            /\ m[6] = RoundColor(scenes[Unpack(m[3])].color)
            /\ m[7] = PackI(RoundMilli(scenes[Unpack(m[3])].velocity))
      [] OTHER -> TRUE
\* the frames m a builder returned for call carry its floats rounded
RoundedCall(call, m) ==
    CASE call[1] = CmdBrightness -> m[3] = <<RoundByte(call[3][1])>>
      [] call[1] = CmdSceneColor -> m[4] = RoundColor(call[4])
      [] call[1] = CmdSceneVelocity -> m[4] = PackI(RoundMilli(call[4][1]))
      [] call[1] = CmdSceneAdd ->
            /\ m[6] = RoundColor(call[6])
            /\ m[7] = PackI(RoundMilli(call[7][1]))
      [] OTHER -> TRUE
\* C35: in every broadcast, snapshot and builder-produced message a color
\* channel c is the byte round(c*255), brightness b the byte round(b*255)
\* and velocity v the 4-byte integer round(v*1000), rounded to nearest (0.5
\* encodes to 128).
C35_RoundToNearest ==
    /\ \A i \in 1..Len(pub) : RoundedState(pub[i])
    /\ \A i \in 1..Len(snap) : RoundedState(Tail(snap[i]))
    /\ lastReq.kind = "codec" => RoundedCall(lastReq.frames, built)

\* ---------------------------------------------------------------------------
\* glin.animations.NovaAnimation.  The colour a particle adds is left out:
\* a write is (part of the particle, buffer index, exponent of the
\* attenuation 2^exp).
\* ---------------------------------------------------------------------------

\* Strip lengths on which every center and every time is tried.
MaxNovaLeds == 15
\* A long strip, tried with particles at its ends and in its middle.
BigStrip == 100
\* Particles in the list before a render.
MaxNovas == 3
\* render_next_frame calls in a row.
MaxRenders == 2

\* Nova.__init__: center and velocity are random, the clocks start at 0.
Nova(led_count, center, velocity) ==
    [led_count |-> led_count, center |-> center, velocity |-> velocity,
     external_time |-> 0, time |-> 0]

\* Nova.tick: time = int(external_time / velocity)
Nova_tick(n, stepsize) ==
    [n EXCEPT !.external_time = @ + stepsize,
              !.time = (n.external_time + stepsize) \div n.velocity]

NovaWrite(part, pos, exp) == [part |-> part, pos |-> pos, exp |-> exp]

\* write_data with the core flash written at every time
Nova_write_data_flash_always(n) ==
    LET c == n.center
        t == n.time
        lstart == c - t
        lstop == IF lstart + 10 < c THEN lstart + 10 ELSE c
        rstart == c + t
        rstop == IF rstart - 10 > c THEN rstart - 10 ELSE c
    IN  {NovaWrite("core", c, t)}
        \cup (IF t > 0 /\ c - t >= -10
              THEN {NovaWrite("left", pos, pos - lstart) :
                       pos \in {q \in lstart..(lstop - 1) : q >= 0}}
              ELSE {})
        \cup (IF t > 0 /\ c + t < n.led_count + 10
              THEN {NovaWrite("right", pos, rstart - pos) :
                       pos \in {q \in (rstop + 1)..rstart : q < n.led_count}}
              ELSE {})

\* write_data with the wings not clipped to the strip
Nova_write_data_unclipped(n) ==
    LET c == n.center
        t == n.time
        lstart == c - t
        lstop == IF lstart + 10 < c THEN lstart + 10 ELSE c
        rstart == c + t
        rstop == IF rstart - 10 > c THEN rstart - 10 ELSE c
    IN  (IF t < 24 THEN {NovaWrite("core", c, t)} ELSE {})
        \cup (IF t > 0 /\ c - t >= -10
              THEN {NovaWrite("left", pos, pos - lstart) :
                       pos \in lstart..(lstop - 1)}
              ELSE {})
        \cup (IF t > 0 /\ c + t < n.led_count + 10
              THEN {NovaWrite("right", pos, rstart - pos) :
                       pos \in (rstop + 1)..rstart}
              ELSE {})

\* Nova.write_data: the writes into data.  The core flash is attenuated by
\* 2^(time/3) (exp holds time); np.arange(start, stop) runs up to stop - 1 and
\* np.arange(start, stop, -1) down to stop + 1, enumerate() counting from 0.
Nova_write_data(n) ==
    LET c == n.center
        t == n.time
        lstart == c - t
        lstop == IF lstart + 10 < c THEN lstart + 10 ELSE c
        rstart == c + t
        rstop == IF rstart - 10 > c THEN rstart - 10 ELSE c
    IN  (IF t < 24 THEN {NovaWrite("core", c, t)} ELSE {})
        \cup (IF t > 0 /\ c - t >= -10
              THEN {NovaWrite("left", pos, pos - lstart) :
                       pos \in {q \in lstart..(lstop - 1) : q >= 0}}
              ELSE {})
        \cup (IF t > 0 /\ c + t < n.led_count + 10
              THEN {NovaWrite("right", pos, rstart - pos) :
                       pos \in {q \in (rstop + 1)..rstart : q < n.led_count}}
              ELSE {})

\* Nova.dead
Nova_dead(n) ==
    /\ n.center - n.time + 10 < 0
    /\ n.center + n.time >= n.led_count + 10

\* list.remove(nova): the particles are distinct objects, so the one under
\* the loop variable, at index i, is removed.
RemoveAt(list, i) ==
    [k \in 1..(Len(list) - 1) |-> IF k < i THEN list[k] ELSE list[k + 1]]

\* for nova in self.novas: if nova.dead(): self.novas.remove(nova)
\* The list iterator keeps an index into the list it walks, which advances
\* by one per round whether or not the round shortened the list.
RECURSIVE RemoveDeadNovas(_, _)
RemoveDeadNovas(list, i) ==
    IF i > Len(list) THEN list
    ELSE IF Nova_dead(list[i]) THEN RemoveDeadNovas(RemoveAt(list, i), i + 1)
    ELSE RemoveDeadNovas(list, i + 1)

\* NovaAnimation.render_next_frame.  spawn is <<>> or <<the particle the
\* random draw adds>>, stepsize the velocity of the animation.
render_next_frame(list, spawn, stepsize) ==
    LET all == list \o spawn
        ticked == [i \in 1..Len(all) |-> Nova_tick(all[i], stepsize)]
    IN  [novas |-> RemoveDeadNovas(ticked, 1),
         ticked |-> ticked,
         writes |-> [i \in 1..Len(all) |-> Nova_write_data(ticked[i])]]

\* A particle of velocity 1 that has been ticked up to time t.
NovaAt(led_count, center, t) ==
    [Nova(led_count, center, 1) EXCEPT !.external_time = t, !.time = t]

\* The first time at which a particle at center is dead.
DeathTime(led_count, center) ==
    IF center + 11 > led_count + 10 - center THEN center + 11
    ELSE led_count + 10 - center

NovaCenters(led_count) ==
    IF led_count <= MaxNovaLeds THEN 0..(led_count - 1)
    ELSE {0, led_count \div 2, led_count - 1}

\* One particle, at every center and every time up to well past its death.
NovaSingles(led_count) ==
    {<<NovaAt(led_count, c, t)>> :
        c \in NovaCenters(led_count), t \in 0..(led_count + 25)}

\* Fresh particles and particles one tick before their death.
NovaSeeds(led_count) ==
    UNION {{NovaAt(led_count, c, 0),
            NovaAt(led_count, c, DeathTime(led_count, c) - 1)} :
              c \in {0, led_count \div 2}}

\* The particle lists a render starts from.
NovaLists(led_count) ==
    NovaSingles(led_count)
    \cup (IF led_count \in {1, BigStrip}
          THEN UNION {[1..k -> NovaSeeds(led_count)] : k \in 0..MaxNovas}
          ELSE {})

\* np.random.rand() < 1/60*velocity: the random draw adds no particle, or
\* one with a random center and velocity (two cases of it).
NovaSpawnKinds == {"none", "first", "last"}
NovaSpawn(led_count, kind) ==
    IF kind = "none" THEN <<>>
    ELSE IF kind = "first" THEN <<Nova(led_count, 0, 1)>>
    ELSE <<Nova(led_count, led_count - 1, 3)>>

\* The velocity of the animation, the step of a tick.
NovaSteps == {0, 1}

\* A NovaAnimation with a particle list, exercised on its own.  libIn holds
\* the class, led_count and the number of renders made.
NovaInit ==
    /\ \E led_count \in (1..MaxNovaLeds) \cup {BigStrip} :
          /\ novas \in NovaLists(led_count)
          /\ libIn = <<"NovaAnimation", led_count, 0>>
    /\ novaWrites = <<>>
    /\ libOut = <<>>

\* render_next_frame is called.  libOut keeps the particles as they were
\* written, before the dead ones are removed.
NovaRender(kind, stepsize) ==
    /\ libIn # <<>>
    /\ libIn[1] = "NovaAnimation"
    /\ libIn[3] < MaxRenders
    /\ kind # "none" => stepsize > 0
    /\ LET r == render_next_frame(novas, NovaSpawn(libIn[2], kind), stepsize)
       IN  /\ novas' = r.novas
           /\ novaWrites' = r.writes
           /\ libOut' = r.ticked
    /\ libIn' = <<libIn[1], libIn[2], libIn[3] + 1>>
    /\ UNCHANGED serverVars

\* The server state while a library class is exercised on its own.
ServerInit ==
    /\ animationClasses = <<>>
    /\ activeSceneId = NoneId
    /\ activeAnimation = <<>>
    /\ scenes = <<>>
    /\ brightness = Unit
    /\ sceneIdCtr = 0
    /\ mainswitch = TRUE
    /\ targetFps = 0
    /\ buf = <<>>
    /\ callerRunning = FALSE
    /\ callbackFps = 30
    /\ pendingRender = 0
    /\ seqNr = 0
    /\ awaitingReply = FALSE
    /\ pub = <<>>
    /\ ext = <<>>
    /\ reply = NoReply
    /\ lastReq = NoEvent
    /\ running = FALSE
    /\ published = <<>>
    /\ accepted = 0
    /\ snap = <<>>
    /\ parsed = NoParse
    /\ built = <<>>
    /\ bufLive = FALSE

\* ---------------------------------------------------------------------------
\* glin.config.schemas.ConfigSchema and the value types of glin.config.types.
\* A schema is a function from its declared keys to value types, values a
\* function from the supplied keys to raw strings.  Python values are
\* written as strings: "True", "False", "None", "DeprecatedValue".
\* ---------------------------------------------------------------------------

ConfigKeys == {"host", "port", "old"}
RawValues == {"", "YES", "off", "maybe"}

\* A value type: Boolean(optional) or Deprecated().
ConfigType(kind, optional) == [kind |-> kind, optional |-> optional]
ConfigTypes ==
    {ConfigType("Boolean", FALSE), ConfigType("Boolean", TRUE),
     ConfigType("Deprecated", FALSE)}

\* The outcome of a deserialize call of a value type.
Typed(value) == [raised |-> FALSE, value |-> value, msg |-> ""]
ValueError(msg) == [raised |-> TRUE, value |-> "None", msg |-> msg]

\* str.lower()
Lower(value) == IF value = "YES" THEN "yes" ELSE value

\* validators.validate_required(value, required)
validate_required(value, required) == required /\ value = ""

\* Boolean.deserialize
Boolean_deserialize(type, value) ==
    IF validate_required(value, ~type.optional)
    THEN ValueError("missing required value")
    ELSE IF value = "" THEN Typed("None")
    ELSE IF Lower(value) \in {"1", "yes", "true", "on"} THEN Typed("True")
    ELSE IF Lower(value) \in {"0", "no", "false", "off"} THEN Typed("False")
    ELSE ValueError("invalid value for boolean")

\* Deprecated.deserialize
Deprecated_deserialize(type, value) == Typed("DeprecatedValue")

\* self[key].deserialize(value)
Type_deserialize(type, value) ==
    IF type.kind = "Deprecated" THEN Deprecated_deserialize(type, value)
    ELSE Boolean_deserialize(type, value)

\* What a call of deserialize gives back.
Returned(result, errors) ==
    [raised |-> "", result |-> result, errors |-> errors]
Raised(exc) == [raised |-> exc, result |-> <<>>, errors |-> <<>>]

\* ConfigSchema.deserialize: the loop over the supplied values, then the
\* loop over the keys of the schema.
ConfigSchema_deserialize(schema, values) ==
    LET declared == DOMAIN schema
        supplied == DOMAIN values
        try == [key \in supplied \cap declared |->
                    Type_deserialize(schema[key], values[key])]
        result1 == [key \in supplied \cap declared |-> try[key].value]
        errors1 == [key \in {k \in supplied : k \notin declared \/ try[k].raised} |->
                       IF key \notin declared THEN "unknown config key."
                       ELSE try[key].msg]
        deprecated == {key \in declared : schema[key].kind = "Deprecated"}
        missing == {key \in declared \ deprecated :
                       key \notin DOMAIN result1 /\ key \notin DOMAIN errors1}
    IN  Returned([key \in (DOMAIN result1 \ deprecated) \cup missing |->
                     IF key \in missing THEN "None" ELSE result1[key]],
                 [key \in DOMAIN errors1 \cup missing |->
                     IF key \in missing THEN "config key not found."
                     ELSE errors1[key]])

\* Loading glin.config.schemas: its line 12, "import glin.config.types
\* import types", is not a Python statement, so the module does not compile.
schemas_import == "SyntaxError"

\* The schemas and value maps deserialize is called with.
ConfigSchemas == UNION {[keys -> ConfigTypes] : keys \in SUBSET ConfigKeys}
ConfigValues == UNION {[keys -> RawValues] : keys \in SUBSET ConfigKeys}

\* A client is about to call schema.deserialize(values).
ConfigInit ==
    /\ \E schema \in ConfigSchemas, values \in ConfigValues :
          libIn = <<"ConfigSchema", schema, values>>
    /\ novas = <<>>
    /\ novaWrites = <<>>
    /\ libOut = <<>>

\* The client imports the module and calls deserialize.
ConfigDeserialize ==
    /\ libIn # <<>>
    /\ libIn[1] = "ConfigSchema"
    /\ libOut = <<>>
    /\ libOut' = <<IF schemas_import = "" THEN ConfigSchema_deserialize(libIn[2], libIn[3])
                   ELSE Raised(schemas_import)>>
    /\ UNCHANGED <<serverVars, novas, novaWrites, libIn>>

LibInit == ServerInit /\ (NovaInit \/ ConfigInit)

LibNext ==
    \/ \E kind \in NovaSpawnKinds, stepsize \in NovaSteps : NovaRender(kind, stepsize)
    \/ ConfigDeserialize

LibSpec == LibInit /\ [][LibNext]_vars

\* ---------------------------------------------------------------------------
\* Properties of NovaAnimation, checked under LibSpec.
\* ---------------------------------------------------------------------------

\* A render of a NovaAnimation has been made: libOut and novaWrites hold the
\* particles it wrote and their writes.
NovaRendered == libIn # <<>> /\ libIn[1] = "NovaAnimation" /\ libIn[3] > 0

\* C36: a particle with center 50 on a strip of 100 LEDs is dead exactly when
\* its time is above 60, and a render writes no LED for it once it is dead.
C36_NovaDeath ==
    NovaRendered =>
        \A i \in 1..Len(libOut) :
            LET n == libOut[i]
            IN  (n.led_count = 100 /\ n.center = 50) =>
                    /\ Nova_dead(n) <=> n.time > 60
                    /\ n.time > 60 => novaWrites[i] = {}

\* A particle at center 50 of 100 LEDs was rendered at time 61, dead and
\* without a write, and one at time 59 was rendered alive with writes.
C36_Witness ==
    /\ NovaRendered
    /\ \E i \in 1..Len(libOut) :
          /\ libOut[i].led_count = 100 /\ libOut[i].center = 50
          /\ libOut[i].time = 61
          /\ Nova_dead(libOut[i])
          /\ novaWrites[i] = {}

C36_WitnessAlive ==
    /\ NovaRendered
    /\ \E i \in 1..Len(libOut) :
          /\ libOut[i].led_count = 100 /\ libOut[i].center = 50
          /\ libOut[i].time = 59
          /\ ~Nova_dead(libOut[i])
          /\ novaWrites[i] # {}

\* C37: after a render_next_frame no dead particle remains in the list,
\* whatever the number and order of dead and live particles.
C37_NoDeadRemains ==
    NovaRendered => \A i \in 1..Len(novas) : ~Nova_dead(novas[i])

\* C38: on every strip, at every center and time, a particle for which dead()
\* holds writes no LED: neither the core flash nor a wing.
C38_DeadWritesNothing ==
    NovaRendered =>
        \A i \in 1..Len(libOut) : Nova_dead(libOut[i]) => novaWrites[i] = {}

\* The writes of one part of a particle.
PartWrites(ws, part) == {w \in ws : w.part = part}

\* C39: every index a particle writes lies on the strip; a wing writes at
\* most 10 positions, attenuated by 2^0..2^9, and never the center.
C39_WritesOnStrip ==
    NovaRendered =>
        \A i \in 1..Len(libOut) :
            LET n == libOut[i]
                ws == novaWrites[i]
            IN  /\ \A w \in ws : w.pos >= 0 /\ w.pos < n.led_count
                /\ \A w \in ws : w.part # "core" =>
                                    w.pos # n.center /\ w.exp \in 0..9
                /\ Cardinality(PartWrites(ws, "left")) <= 10
                /\ Cardinality(PartWrites(ws, "right")) <= 10

\* A particle was rendered with both wings cut off by the ends of the strip.
C39_Witness ==
    /\ NovaRendered
    /\ \E i \in 1..Len(libOut) :
          LET n == libOut[i]
              ws == novaWrites[i]
          IN  /\ n.center - n.time < 0
              /\ n.center + n.time >= n.led_count
              /\ PartWrites(ws, "left") # {}
              /\ PartWrites(ws, "right") # {}

\* A particle was rendered with two full wings of 10 positions.
C39_WitnessFull ==
    /\ NovaRendered
    /\ \E i \in 1..Len(libOut) :
          /\ Cardinality(PartWrites(novaWrites[i], "left")) = 10
          /\ Cardinality(PartWrites(novaWrites[i], "right")) = 10

\* ---------------------------------------------------------------------------
\* Properties of ConfigSchema, checked under LibSpec.
\* ---------------------------------------------------------------------------

\* deserialize has been called: libOut holds what the call gave.
ConfigCalled == libIn # <<>> /\ libIn[1] = "ConfigSchema" /\ libOut # <<>>

\* The contract of deserialize for a schema, the supplied values and the
\* outcome out, with the two messages of the schema itself as parameters.
DeserializeContract(schema, values, out, unknown, notFound) ==
    LET declared == DOMAIN schema
        supplied == DOMAIN values
        result == out.result
        errors == out.errors
        deprecated == {key \in declared : schema[key].kind = "Deprecated"}
    IN  /\ out.raised = ""
        /\ \A key \in supplied \ declared :
              /\ key \in DOMAIN errors /\ errors[key] = unknown
              /\ key \notin DOMAIN result
        /\ \A key \in supplied \cap declared :
              LET t == Type_deserialize(schema[key], values[key])
              IN  IF t.raised
                  THEN key \in DOMAIN errors /\ errors[key] = t.msg
                  ELSE key \notin deprecated =>
                          /\ key \in DOMAIN result /\ result[key] = t.value
                          /\ key \notin DOMAIN errors
        /\ \A key \in (declared \ deprecated) \ supplied :
              key \in DOMAIN errors /\ errors[key] = notFound
        /\ \A key \in deprecated :
              key \notin DOMAIN result /\ key \notin DOMAIN errors

\* C40: deserialize returns (typed_values, errors) where an undeclared key
\* has the error "unknown config key" and no value, a declared key with an
\* invalid value has its type's message, a declared key that is neither
\* Deprecated nor supplied has "config key not found", a Deprecated key has
\* neither value nor error, and a declared key with a valid value has its
\* typed value and no error.
C40_DeserializeContract ==
    ConfigCalled =>
        DeserializeContract(libIn[2], libIn[3], libOut[1],
                            "unknown config key", "config key not found")

====
